---------------------------- MODULE Spec2Model ----------------------------
(***************************************************************************)
(* A model of the mailing pipeline of uap-awareness/adr (src/mailing.rs,   *)
(* src/usps.rs, src/core.rs, src/models.rs).                               *)
(*                                                                         *)
(* Strings whose characters matter (formatted numbers, barcode fields) are *)
(* sequences of character codes: the digits '0'..'9' are 0..9 and any      *)
(* other character is a number above 9.  Strings that are only copied      *)
(* (names, street lines) are opaque values.                                *)
(***************************************************************************)
EXTENDS Integers, Sequences, FiniteSets, TLC

VARIABLES
    \* ---- presort_mailpieces / segment_trays applied to a given list ----
    mailpieces,     \* the argument list of mailpieces (Vec<Mailpiece>)
    ret,            \* the returned Vec<MailTray>
    called,         \* "none" | "presort" | "segment": which function produced ret
    \* ---- Mailing::load ----
    cfg,            \* CFG, the MailingCfg read from mailing_cfg.json
    pers,           \* the &mut [Person] argument, fixed over the runs
    file,           \* mailing.json on disk: None or the serialized Mailing
    mailing,        \* the Mailing held in memory by the running load, or None
    pc,             \* position of the running load
    tray_idx,       \* index of the next tray of the add_barcodes loop
    may_write,      \* local may_write of load
    result,         \* what the last finished load returned
    loads,          \* number of load calls started so far
    assigned,       \* history: number of times load assigned ids
    obtained,       \* history: ids whose encoding the encoder has returned
    rerequested,    \* history: ids sent to the encoder again after being obtained
    \* ---- encode_barcode, called directly or by MailTray::add_barcodes ----
    enc_tray,       \* the MailTray (self) of add_barcodes
    enc_calls,      \* the argument tuples of the encode_barcode calls made
    enc_sent,       \* the queries the encoder service has received
    enc_ret,        \* None or what encode_barcode / add_barcodes returned
    enc_self,       \* None or the tray (self) as add_barcodes left it
    \* ---- standardize_addresses ----
    std_adrs,       \* the Vec<Address> argument, as modified so far
    std_idx,        \* index of the address the loop is at
    std_log,        \* the attempts made so far on that address
    std_last,       \* None or the last standardize_address call
    std_ret,        \* None or what standardize_addresses returned
    \* ---- fetch_adrs of a roster, for one unresolved Person ----
    ros,            \* the roster: "House", "Senate" or "State"
    ros_per,        \* per.name
    ros_fetched,    \* the url paths fetched so far, each with the page it gave
    ros_adrs,       \* self.persons[idx].adrs
    ros_ret,        \* None or what fetch_adrs returned
    \* ---- House::load / Senate::load over the runs of the program ----
    rst_file,       \* house.json: None (absent or unreadable) or the roster
    rst_mem,        \* the persons of the roster in memory (self.persons)
    rst_todo,       \* the indices the loop of fetch_adrs has still to visit
    rst_pc,         \* "idle" | "adrs": position of the running load
    rst_ret,        \* None or what the last load returned
    rst_runs,       \* number of loads started
    rst_start,      \* history: rst_file when the running load started
    rst_log,        \* history: the indices fetch_adrs has visited in this load
    rst_ckpt,       \* history: what the last successful write_to_file wrote
    \* ---- fetch_html and its cache directory ----
    ch_dir,         \* whether the directory .cache exists
    ch_cache,       \* the files of .cache: file name -> None or the content
    ch_net,         \* number of GET requests sent so far
    ch_first,       \* history: url -> None or the body of its first Ok
    ch_last,        \* history: None or the last call of fetch_html
    ch_calls,       \* number of fetch_html calls made
    \* ---- the functions of prsr.rs applied to a given argument ----
    prs_fn,         \* "none" or the name of the function applied
    prs_arg,        \* the argument
    prs_ret         \* the value returned

presortVars == <<mailpieces, ret, called>>
loadVars == <<cfg, pers, file, mailing, pc, tray_idx, may_write, result, loads,
              assigned, obtained, rerequested>>
encVars == <<enc_tray, enc_calls, enc_sent, enc_ret, enc_self>>
stdVars == <<std_adrs, std_idx, std_log, std_last, std_ret>>
rosVars == <<ros, ros_per, ros_fetched, ros_adrs, ros_ret>>
rstVars == <<rst_file, rst_mem, rst_todo, rst_pc, rst_ret, rst_runs, rst_start,
             rst_log, rst_ckpt>>
chVars == <<ch_dir, ch_cache, ch_net, ch_first, ch_last, ch_calls>>
prsVars == <<prs_fn, prs_arg, prs_ret>>
extVars == <<encVars, stdVars, rosVars, rstVars, chVars, prsVars>>
\* What the actions of one specification leave alone.
encOther == <<presortVars, loadVars, stdVars, rosVars, rstVars, chVars, prsVars>>
stdOther == <<presortVars, loadVars, encVars, rosVars, rstVars, chVars, prsVars>>
rosOther == <<presortVars, loadVars, encVars, stdVars, rstVars, chVars, prsVars>>
rstOther == <<presortVars, loadVars, encVars, stdVars, rosVars, chVars, prsVars>>
chOther == <<presortVars, loadVars, encVars, stdVars, rosVars, rstVars, prsVars>>
prsOther == <<presortVars, loadVars, encVars, stdVars, rosVars, rstVars, chVars>>
vars == <<presortVars, loadVars, encVars, stdVars, rosVars, rstVars, chVars,
          prsVars>>

\* Option<T>: None is the empty sequence and Some(x) the sequence <<x>>.
None == <<>>
Some(x) == <<x>>
Unwrap(o) == o[1]

\* No load is running: there is no Mailing in memory.
NoMailing == [trays |-> <<>>]

\* The variables of the calls to the external services, at rest.
EncIdle ==
    /\ enc_tray = None /\ enc_calls = <<>> /\ enc_sent = <<>> /\ enc_ret = None
    /\ enc_self = None
StdIdle ==
    /\ std_adrs = <<>> /\ std_idx = 0 /\ std_log = <<>> /\ std_last = None
    /\ std_ret = None
RosIdle ==
    /\ ros = "" /\ ros_per = "" /\ ros_fetched = <<>> /\ ros_adrs = None
    /\ ros_ret = None
RstIdle ==
    /\ rst_file = None /\ rst_mem = <<>> /\ rst_todo = <<>> /\ rst_pc = "idle"
    /\ rst_ret = None /\ rst_runs = 0 /\ rst_start = None /\ rst_log = <<>>
    /\ rst_ckpt = None
ChIdle ==
    /\ ch_dir = FALSE /\ ch_cache = <<>> /\ ch_net = 0 /\ ch_first = <<>>
    /\ ch_last = None /\ ch_calls = 0
PrsIdle == prs_fn = "none" /\ prs_arg = <<>> /\ prs_ret = <<>>
ExtIdle == EncIdle /\ StdIdle /\ RosIdle /\ RstIdle /\ ChIdle /\ PrsIdle

-----------------------------------------------------------------------------
(* Program constants.                                                      *)

PRESORT_MIN == 200
CAP_1FOOT == 600
CAP_2FOOT == 1200
\* 'A' as u32
CHR_A == 65

OneFoot == "OneFoot"
TwoFoot == "TwoFoot"
FiveDigit == "FiveDigit"
MixedAadc == "MixedAadc"

-----------------------------------------------------------------------------
(* Bounds of the model.                                                    *)

\* Number of runs (blocks of equal-zip pieces) an argument list is made of.
MaxRuns == 3

\* The zip codes of the argument lists; 501 needs the zero padding of {:05}.
Zips == {501, 20515, 94110}

\* The lengths of the runs: 199 + 1 is the presort minimum.
RunLens == {1, 199}

\* The lengths of the one-zip lists: around the tray capacities and their
\* multiples.
SegLens == {0, 599, 600, 601, 1199, 1200, 1201, 1800, 2399, 2400, 2401, 3601}

-----------------------------------------------------------------------------
(* Sequence helpers.                                                       *)

\* A function on 1..n as a sequence value (a Vec): the same function.
Vec(f) == f \o <<>>

Reverse(s) == Vec([i \in 1..Len(s) |-> s[Len(s) + 1 - i]])

RECURSIVE ConcatRange(_, _, _)
\* ss[lo] \o ... \o ss[hi], halving the range to keep the recursion shallow.
ConcatRange(ss, lo, hi) ==
    IF lo > hi THEN <<>>
    ELSE IF lo = hi THEN ss[lo]
    ELSE LET mid == (lo + hi) \div 2
         IN  ConcatRange(ss, lo, mid) \o ConcatRange(ss, mid + 1, hi)

\* The concatenation of a sequence of sequences (Vec::extend, repeated).
Concat(ss) == ConcatRange(Vec(ss), 1, Len(ss))

Range(s) == {s[i] : i \in DOMAIN s}

-----------------------------------------------------------------------------
(* Mailpiece and MailTray.                                                 *)

\* Mailpiece { name, address1, zip5, zip4, delivery_point, barcode, id };
\* title1, title2, city and state are copied and never read, and are left out.
Mailpiece(name, address1, zip5, zip4, delivery_point) ==
    [name |-> name, address1 |-> address1, zip5 |-> zip5, zip4 |-> zip4,
     delivery_point |-> delivery_point, barcode |-> <<>>, id |-> 0]

MailTray(name, size, barcode_id, mps) ==
    [name |-> name, size |-> size, barcode_id |-> barcode_id, mailpieces |-> mps]

-----------------------------------------------------------------------------
(* Formatting and comparing strings of digits.                             *)

RECURSIVE Digits(_)
\* The decimal digits of n, most significant first.
Digits(n) == IF n < 10 THEN <<n>> ELSE Append(Digits(n \div 10), n % 10)

\* format!("{:0w$}", n): the digits of n, left-padded with '0' to width w.
fmt_pad(n, w) ==
    IF Len(Digits(n)) >= w THEN Digits(n)
    ELSE [i \in 1..(w - Len(Digits(n))) |-> 0] \o Digits(n)

\* String < String: lexicographic on the characters.
StrLess(a, b) ==
    \/ Len(a) < Len(b) /\ SubSeq(b, 1, Len(a)) = a
    \/ \E i \in 1..(IF Len(a) < Len(b) THEN Len(a) ELSE Len(b)) :
          /\ a[i] < b[i]
          /\ \A j \in 1..(i - 1) : a[j] = b[j]

IsAsciiDigits(s) == \A i \in DOMAIN s : s[i] \in 0..9

-----------------------------------------------------------------------------
(* slice::sort_unstable_by_key.  The result is sorted by the key; the      *)
(* order of elements with equal keys is not specified by the library, so   *)
(* it is a choice (tie) made at each call: "keep" leaves elements with     *)
(* equal keys in their order, "rev" reverses them.                         *)

TiePolicies == {"keep", "rev"}

\* Ord of the key type: "u32" for numbers, "String" for strings.
KeyLess(ord, a, b) == IF ord = "String" THEN StrLess(a, b) ELSE a < b

\* The keys of set ks in ascending order.
SortKeys(ks, ord) ==
    [j \in 1..Cardinality(ks) |->
        CHOOSE k \in ks : Cardinality({o \in ks : KeyLess(ord, o, k)}) = j - 1]

\* The elements of s whose key (keys[i] is the key of s[i]) is k, in order.
bucket(s, keys, k) ==
    SelectSeq(Vec([i \in DOMAIN s |-> i]), LAMBDA i : keys[i] = k)

\* Mutant: the list is left as it is.
sort_unstable_by_key_none(s, keys, ord, tie) == s

\* s sorted by the keys; keys[i] is the key of s[i].
sort_unstable_by_key(s, keys, ord, tie) ==
    LET order == SortKeys({keys[i] : i \in DOMAIN s}, ord)
        perm == Concat([j \in DOMAIN order |->
                          IF tie = "rev" THEN Reverse(bucket(s, keys, order[j]))
                          ELSE bucket(s, keys, order[j])])
    IN  Vec([i \in DOMAIN s |-> s[perm[i]]])

-----------------------------------------------------------------------------
(* segment_trays (mailing.rs 252-312).                                     *)

RECURSIVE split_loop(_, _, _)
\* The while loop and the handling of the remaining pieces (279-309).
split_loop(barcode_id, remaining_pieces, acc) ==
    IF Len(remaining_pieces) > CAP_2FOOT
    THEN split_loop(barcode_id,
                    SubSeq(remaining_pieces, CAP_2FOOT + 1, Len(remaining_pieces)),
                    Append(acc, MailTray(<<>>, TwoFoot, barcode_id,
                                         SubSeq(remaining_pieces, 1, CAP_2FOOT))))
    ELSE IF Len(remaining_pieces) > CAP_1FOOT
    THEN Append(acc, MailTray(<<>>, TwoFoot, barcode_id, remaining_pieces))
    ELSE IF remaining_pieces # <<>>
    THEN Append(acc, MailTray(<<>>, OneFoot, barcode_id, remaining_pieces))
    ELSE acc

\* Mutant: a list above CAP_2FOOT is not split.
segment_trays_unsplit(barcode_id, mps) ==
    IF Len(mps) <= CAP_1FOOT
    THEN <<MailTray(<<>>, OneFoot, barcode_id, mps)>>
    ELSE <<MailTray(<<>>, TwoFoot, barcode_id, mps)>>

\* Mutant: < for <= in the first test.
segment_trays_lt(barcode_id, mps) ==
    IF Len(mps) < CAP_1FOOT
    THEN <<MailTray(<<>>, OneFoot, barcode_id, mps)>>
    ELSE IF Len(mps) <= CAP_2FOOT
    THEN <<MailTray(<<>>, TwoFoot, barcode_id, mps)>>
    ELSE split_loop(barcode_id, mps, <<>>)

segment_trays(barcode_id, mps) ==
    IF Len(mps) <= CAP_1FOOT
    THEN <<MailTray(<<>>, OneFoot, barcode_id, mps)>>
    ELSE IF Len(mps) <= CAP_2FOOT
    THEN <<MailTray(<<>>, TwoFoot, barcode_id, mps)>>
    ELSE split_loop(barcode_id, mps, <<>>)

-----------------------------------------------------------------------------
(* presort_mailpieces (mailing.rs 220-249).                                *)

\* The key |o| o.zip5 of every element.
zip5_keys(mps) == Vec([i \in DOMAIN mps |-> mps[i].zip5])

RECURSIVE chunks_from(_, _)
\* The chunks of s that start at the indices in starts, in order.
chunks_from(s, starts) ==
    IF starts = {} THEN <<>>
    ELSE LET b == CHOOSE i \in starts : \A j \in starts : i <= j
             rest == starts \ {b}
             e == IF rest = {} THEN Len(s)
                  ELSE (CHOOSE i \in rest : \A j \in rest : i <= j) - 1
         IN  <<SubSeq(s, b, e)>> \o chunks_from(s, rest)

\* Mutant: the key is the same for every mailpiece.
chunk_by_const(s) == IF s = <<>> THEN <<>> ELSE <<s>>

\* Itertools::chunk_by(|mp| mp.zip5): maximal runs of consecutive equal zip5.
chunk_by(s) ==
    chunks_from(s, {i \in DOMAIN s : i = 1 \/ s[i].zip5 # s[i - 1].zip5})

\* Mutant: > for >=.
is_five_digit_gt(grp) == Len(grp) > PRESORT_MIN

\* grp.len() >= PRESORT_MIN (230).
is_five_digit(grp) == Len(grp) >= PRESORT_MIN

\* The trays pushed to ret inside the loop over the chunks (227-236).
five_digit_trays(chunks) ==
    Concat([j \in DOMAIN chunks |->
              IF is_five_digit(chunks[j])
              THEN segment_trays(FiveDigit, chunks[j]) ELSE <<>>])

\* Mutant: mixed_aadcs is assigned, not extended: the last such chunk only.
mixed_aadcs_last(chunks) ==
    IF \E j \in DOMAIN chunks : ~is_five_digit(chunks[j])
    THEN chunks[CHOOSE j \in DOMAIN chunks :
                    /\ ~is_five_digit(chunks[j])
                    /\ \A k \in DOMAIN chunks : k > j => is_five_digit(chunks[k])]
    ELSE <<>>

\* mixed_aadcs after the loop: the pieces of the other chunks (234).
mixed_aadcs(chunks) ==
    Concat([j \in DOMAIN chunks |->
              IF is_five_digit(chunks[j]) THEN <<>> ELSE chunks[j]])

\* Set tray names (241-246): 'A', 'B', ... by position.
set_tray_names(trays) ==
    Vec([idx \in DOMAIN trays |-> [trays[idx] EXCEPT !.name = <<CHR_A + idx - 1>>]])

presort_mailpieces(mps, tie) ==
    LET chunks == chunk_by(sort_unstable_by_key(mps, zip5_keys(mps), "u32", tie))
    IN  set_tray_names(five_digit_trays(chunks)
                       \o segment_trays(MixedAadc, mixed_aadcs(chunks)))

-----------------------------------------------------------------------------
(* Argument lists for presort_mailpieces and segment_trays.                *)

\* A run: n pieces of one zip5.
\* The runs: every zip at every length, and one run that overflows a tray.
RunChoices ==
    [zip5 : Zips, n : RunLens] \cup {[zip5 |-> 20515, n |-> CAP_2FOOT + 1]}

RunSeqs == UNION {[1..k -> RunChoices] : k \in 0..MaxRuns}

\* The pieces of a run; zip4 differs inside the run.
run_pieces(r) == Vec([i \in 1..r.n |-> Mailpiece(0, 0, r.zip5, i % 2, None)])

\* The list a sequence of runs stands for; id is the position in the list.
pieces_of(runs) ==
    LET flat == Concat([j \in DOMAIN runs |-> run_pieces(runs[j])])
    IN  Vec([i \in DOMAIN flat |-> [flat[i] EXCEPT !.id = i]])

-----------------------------------------------------------------------------
(* Specification of the two pure functions.                                *)

LoadIdle ==
    /\ cfg = None /\ pers = <<>> /\ file = None /\ mailing = NoMailing /\ pc = "idle"
    /\ tray_idx = 0 /\ may_write = FALSE /\ result = None /\ loads = 0
    /\ assigned = 0 /\ obtained = {} /\ rerequested = {}

InitPresort ==
    /\ \/ \E runs \in RunSeqs : mailpieces = pieces_of(runs)
       \/ \E n \in SegLens, z \in Zips : mailpieces = pieces_of(<<[zip5 |-> z, n |-> n]>>)
    /\ ret = <<>>
    /\ called = "none"
    /\ LoadIdle /\ ExtIdle

CallPresort ==
    /\ called = "none"
    /\ \E tie \in TiePolicies : ret' = presort_mailpieces(mailpieces, tie)
    /\ called' = "presort"
    /\ UNCHANGED <<mailpieces>>
    /\ UNCHANGED <<loadVars, extVars>>

CallSegment ==
    /\ called = "none"
    /\ \E b \in {FiveDigit, MixedAadc} : ret' = segment_trays(b, mailpieces)
    /\ called' = "segment"
    /\ UNCHANGED <<mailpieces>>
    /\ UNCHANGED <<loadVars, extVars>>

NextPresort == CallPresort \/ CallSegment

SpecPresort == InitPresort /\ [][NextPresort]_vars

-----------------------------------------------------------------------------
(* Properties of presort_mailpieces and segment_trays (under SpecPresort). *)

\* The mailpieces of the trays, tray after tray.
pieces_in(trays) == Concat([t \in DOMAIN trays |-> trays[t].mailpieces])

\* For every mailpiece of pieces_in(trays), the barcode_id of its tray.
cats_in(trays) ==
    Concat([t \in DOMAIN trays |->
              [i \in DOMAIN trays[t].mailpieces |-> trays[t].barcode_id]])

\* The number of mailpieces of list mps with zip5 z.
zip_count(mps, z) == Cardinality({i \in DOMAIN mps : mps[i].zip5 = z})

\* C1: every tray returned by presort_mailpieces or segment_trays holds at
\* most 600 mailpieces if it is OneFoot and at most 1200 if it is TwoFoot.
C1_TrayCapacity ==
    called \in {"presort", "segment"} =>
        \A t \in DOMAIN ret :
            /\ ret[t].size \in {OneFoot, TwoFoot}
            /\ ret[t].size = OneFoot => Len(ret[t].mailpieces) <= 600
            /\ ret[t].size = TwoFoot => Len(ret[t].mailpieces) <= 1200

\* A full TwoFoot tray beside a full OneFoot tray, out of a list that had to
\* be split.
C1_Witness ==
    /\ called = "presort"
    /\ Len(mailpieces) > 1200
    /\ \E t \in DOMAIN ret : ret[t].size = TwoFoot /\ Len(ret[t].mailpieces) = 1200
    /\ \E t \in DOMAIN ret : ret[t].size = OneFoot /\ Len(ret[t].mailpieces) = 600

\* C2: all mailpieces of a tray that presort_mailpieces marks FiveDigit have
\* the same zip5.
C2_FiveDigitOneZip ==
    called = "presort" =>
        \A t \in DOMAIN ret :
            ret[t].barcode_id = FiveDigit =>
                \A i \in DOMAIN ret[t].mailpieces :
                    ret[t].mailpieces[i].zip5 = ret[t].mailpieces[1].zip5

\* A FiveDigit group split over two trays, and a FiveDigit tray of another zip.
C2_Witness ==
    /\ called = "presort"
    /\ \E t, u, v \in DOMAIN ret :
          /\ t < u
          /\ ret[t].barcode_id = FiveDigit /\ ret[u].barcode_id = FiveDigit
          /\ ret[v].barcode_id = FiveDigit
          /\ ret[t].mailpieces[1].zip5 = ret[u].mailpieces[1].zip5
          /\ ret[v].mailpieces[1].zip5 # ret[t].mailpieces[1].zip5

\* C3: a mailpiece is in a FiveDigit tray iff the list has at least 200
\* mailpieces of its zip5; the others are in MixedAadc trays, which are the
\* trays of one group: they follow one another and only the last is not full.
C3_FiveDigitIffMin ==
    called = "presort" =>
        /\ \A cnt \in {[z \in Zips |-> zip_count(mailpieces, z)]} :
              \A t \in DOMAIN ret :
                  /\ ret[t].barcode_id \in {FiveDigit, MixedAadc}
                  /\ \A i \in DOMAIN ret[t].mailpieces :
                        (ret[t].barcode_id = FiveDigit)
                            <=> (cnt[ret[t].mailpieces[i].zip5] >= 200)
        /\ \A t, u \in DOMAIN ret :
              (t < u /\ ret[t].barcode_id = MixedAadc) =>
                  /\ ret[u].barcode_id = MixedAadc
                  /\ Len(ret[t].mailpieces) = 1200

\* 199 mailpieces of one zip are MixedAadc, 200 of another (199 + 1, apart in
\* the list) are FiveDigit.
C3_Witness ==
    /\ called = "presort"
    /\ \E z1, z2 \in Zips :
          /\ zip_count(mailpieces, z1) = 199
          /\ zip_count(mailpieces, z2) = 200
          /\ mailpieces[1].zip5 = z2 /\ mailpieces[Len(mailpieces)].zip5 = z2
          /\ \E t \in DOMAIN ret :
                ret[t].barcode_id = MixedAadc /\ Len(ret[t].mailpieces) = 199
          /\ \E t \in DOMAIN ret :
                ret[t].barcode_id = FiveDigit /\ Len(ret[t].mailpieces) = 200

\* C8 as claimed: presort_mailpieces on an empty list returns zero trays.
C8_EmptyListNoTrays ==
    (called = "presort" /\ mailpieces = <<>>) => ret = <<>>

\* The tray t of the n mailpieces must be: the mailpieces
\* 1200 (t - 1) + 1 .. min(1200 t, n) of the list.
C9_slice(t, n) ==
    SubSeq(mailpieces, 1200 * (t - 1) + 1, IF 1200 * t < n THEN 1200 * t ELSE n)

\* C9: segment_trays on n mailpieces returns one OneFoot tray if n <= 600, one
\* TwoFoot tray if 600 < n <= 1200, and otherwise TwoFoot trays of 1200
\* followed by a tail tray of 1..1200 mailpieces that is TwoFoot if it has more
\* than 600; the trays hold the mailpieces in order.
C9_SegmentShape ==
    called = "segment" =>
        \A n \in {Len(mailpieces)} :
            /\ n <= 600 =>
                  /\ Len(ret) = 1 /\ ret[1].size = OneFoot
                  /\ ret[1].mailpieces = mailpieces
            /\ (600 < n /\ n <= 1200) =>
                  /\ Len(ret) = 1 /\ ret[1].size = TwoFoot
                  /\ ret[1].mailpieces = mailpieces
            /\ n > 1200 =>
                  /\ Len(ret) = ((n - 1) \div 1200) + 1
                  /\ \A t \in DOMAIN ret :
                        /\ ret[t].mailpieces = C9_slice(t, n)
                        /\ t < Len(ret) =>
                              /\ ret[t].size = TwoFoot
                              /\ Len(ret[t].mailpieces) = 1200
                        /\ t = Len(ret) =>
                              /\ Len(ret[t].mailpieces) \in 1..1200
                              /\ ret[t].size = IF Len(ret[t].mailpieces) > 600
                                               THEN TwoFoot ELSE OneFoot

\* 1201 mailpieces: one TwoFoot tray of 1200 and one OneFoot tray of 1.
C9_Witness ==
    /\ called = "segment"
    /\ Len(mailpieces) = 1201
    /\ Len(ret) = 2
    /\ ret[1].size = TwoFoot /\ Len(ret[1].mailpieces) = 1200
    /\ ret[2].size = OneFoot /\ Len(ret[2].mailpieces) = 1

\* The order of the trays: no FiveDigit tray after a MixedAadc tray, and the
\* FiveDigit trays in ascending zip5.
C10_tray_order ==
    \A t, u \in DOMAIN ret :
        t < u =>
            /\ ~(ret[t].barcode_id = MixedAadc /\ ret[u].barcode_id = FiveDigit)
            /\ (ret[t].barcode_id = FiveDigit /\ ret[u].barcode_id = FiveDigit) =>
                  ret[t].mailpieces[1].zip5 <= ret[u].mailpieces[1].zip5

\* C10 as claimed: the tray order, and within one group (the mailpieces of a
\* FiveDigit zip, or the MixedAadc mailpieces) the mailpieces keep the
\* relative order of the list (id is the position in the list).
C10_InputOrderKept ==
    called = "presort" =>
        /\ C10_tray_order
        /\ \A flat \in {pieces_in(ret)} : \A cat \in {cats_in(ret)} :
              \A i \in 1..(Len(flat) - 1) :
                  (cat[i] = cat[i + 1]
                     /\ (cat[i] = MixedAadc \/ flat[i].zip5 = flat[i + 1].zip5))
                      => flat[i].id < flat[i + 1].id

\* C10 as amended: the tray order, and the MixedAadc mailpieces in ascending
\* zip5.
C10_Zip5Order ==
    called = "presort" =>
        /\ C10_tray_order
        /\ \A flat \in {pieces_in(ret)} : \A cat \in {cats_in(ret)} :
              \A i \in 1..(Len(flat) - 1) :
                  cat[i] = cat[i + 1] => flat[i].zip5 <= flat[i + 1].zip5

\* Two zips below the minimum, given in descending order, and a FiveDigit tray.
C10_Witness ==
    /\ called = "presort"
    /\ Len(mailpieces) >= 2
    /\ mailpieces[1].zip5 > mailpieces[2].zip5
    /\ \E t \in DOMAIN ret : ret[t].barcode_id = FiveDigit
    /\ \E t \in DOMAIN ret :
          /\ ret[t].barcode_id = MixedAadc
          /\ Len(ret[t].mailpieces) = 2
          /\ ret[t].mailpieces[1].zip5 < ret[t].mailpieces[2].zip5

-----------------------------------------------------------------------------
(* encode_barcode (usps.rs 183-236) and the routing code of add_barcodes.  *)

\* impl Display for BarcodeId (mailing.rs 530-541).
barcode_id_str(b) ==
    IF b = FiveDigit THEN <<2, 0>> ELSE IF b = MixedAadc THEN <<5, 0>> ELSE <<0, 0>>

\* STID_RSR = "272" (mailing.rs 486).
STID_RSR == <<2, 7, 2>>

\* A validation that does not look at serial_id.
encode_input_valid_noserial(barcode_id, service_id, mailer_id, serial_id, code) ==
    /\ ~(Len(barcode_id) # 2 \/ ~IsAsciiDigits(barcode_id) \/ barcode_id[2] > 4)
    /\ ~(Len(service_id) # 3 \/ ~IsAsciiDigits(service_id))
    /\ ~(Len(mailer_id) # 9 \/ ~IsAsciiDigits(mailer_id))
    /\ ~(~(code = <<>> \/ Len(code) = 5 \/ Len(code) = 9 \/ Len(code) = 11)
         \/ ~IsAsciiDigits(code))

\* The validation at the head of encode_barcode (usps.rs 191-213).
encode_input_valid(barcode_id, service_id, mailer_id, serial_id, code) ==
    /\ ~(Len(barcode_id) # 2 \/ ~IsAsciiDigits(barcode_id) \/ barcode_id[2] > 4)
    /\ ~(Len(service_id) # 3 \/ ~IsAsciiDigits(service_id))
    /\ ~(Len(mailer_id) # 9 \/ ~IsAsciiDigits(mailer_id))
    /\ ~(Len(serial_id) # 6 \/ ~IsAsciiDigits(serial_id))
    /\ ~(~(code = <<>> \/ Len(code) = 5 \/ Len(code) = 9 \/ Len(code) = 11)
         \/ ~IsAsciiDigits(code))

\* A query that puts the routing code first.
encode_query_code_first(barcode_id, service_id, mailer_id, serial_id, code) ==
    code \o barcode_id \o service_id \o mailer_id \o serial_id

\* The query sent to the encoder (usps.rs 216-219).
encode_query(barcode_id, service_id, mailer_id, serial_id, code) ==
    barcode_id \o service_id \o mailer_id \o serial_id \o code

\* A routing code that takes the delivery point whenever there is one.
routing_code_dp_always(mp) ==
    LET zip == IF mp.zip4 # 0
               THEN fmt_pad(mp.zip5, 5) \o fmt_pad(mp.zip4, 4)
               ELSE fmt_pad(mp.zip5, 5)
    IN  IF mp.delivery_point # None
        THEN zip \o Unwrap(mp.delivery_point) ELSE zip

\* The routing code add_barcodes builds for a mailpiece (mailing.rs 351-360).
routing_code(mp) ==
    LET zip == IF mp.zip4 # 0
               THEN fmt_pad(mp.zip5, 5) \o fmt_pad(mp.zip4, 4)
               ELSE fmt_pad(mp.zip5, 5)
    IN  IF mp.zip4 # 0 /\ mp.delivery_point # None
        THEN zip \o Unwrap(mp.delivery_point) ELSE zip

\* The arguments add_barcodes passes for mailpiece mp of a tray (363-369).
barcode_args(tray, mailer_id, mp) ==
    <<barcode_id_str(tray.barcode_id), STID_RSR, mailer_id,
      fmt_pad(mp.id, 6), routing_code(mp)>>

barcode_input_valid(tray, mailer_id, mp) ==
    LET a == barcode_args(tray, mailer_id, mp)
    IN  encode_input_valid(a[1], a[2], a[3], a[4], a[5])

\* The encoder's answer to a query: the service is a function of the query,
\* and its font-encoded string is kept as an 'F' (70) and the query it encodes.
imb_of(tray, mailer_id, mp) ==
    LET a == barcode_args(tray, mailer_id, mp)
    IN  <<70>> \o encode_query(a[1], a[2], a[3], a[4], a[5])

-----------------------------------------------------------------------------
(* Mailing::load (mailing.rs 71-214): building a new mailing.              *)

\* PRC_FIVE_DIG and PRC_MIXED_AADC, in thousandths of a dollar.
PRC_FIVE_DIG == 173
PRC_MIXED_AADC == 208

U8 == 256
U16 == 65536

\* Create mailpieces for each person (81-103).
create_mailpieces(ps) ==
    Concat([p \in DOMAIN ps |->
              IF ps[p].adrs = None THEN <<>>
              ELSE LET adrs == Unwrap(ps[p].adrs)
                   IN  [a \in DOMAIN adrs |->
                          Mailpiece(ps[p].name, adrs[a].address1, adrs[a].zip5,
                                    adrs[a].zip4, adrs[a].delivery_point)]])

\* The first person whose adrs is None (100-102), or 0.
missing_address(ps) ==
    IF \E p \in DOMAIN ps : ps[p].adrs = None
    THEN CHOOSE p \in DOMAIN ps :
            /\ ps[p].adrs = None
            /\ \A q \in 1..(p - 1) : ps[q].adrs # None
    ELSE 0

\* A key without the zero padding of {:05}{:04}.
zip_key_nopad(mp) == fmt_pad(mp.zip5, 1) \o fmt_pad(mp.zip4, 1)

\* The key of the sort for id generation (109).
zip_key(mp) == fmt_pad(mp.zip5, 5) \o fmt_pad(mp.zip4, 4)

zip_keys(mps) == Vec([i \in DOMAIN mps |-> zip_key(mps[i])])

\* Ids that leave every other value out.
assign_ids_step2(mps, last_mailpiece_id) ==
    Vec([i \in DOMAIN mps |->
            [mps[i] EXCEPT !.id = last_mailpiece_id + 1 + 2 * (i - 1)]])

\* Ids by position in the sorted list (114-117).
assign_ids(mps, last_mailpiece_id) ==
    LET base_id == last_mailpiece_id + 1
    IN  Vec([i \in DOMAIN mps |-> [mps[i] EXCEPT !.id = base_id + (i - 1)]])

RECURSIVE sum_len(_, _)
sum_len(trays, barcode_id) ==
    IF trays = <<>> THEN 0
    ELSE (IF Head(trays).barcode_id = barcode_id
          THEN Len(Head(trays).mailpieces) ELSE 0)
         + sum_len(Tail(trays), barcode_id)

count_size(trays, size) == Cardinality({t \in DOMAIN trays : trays[t].size = size})

\* The Mailing built when no file can be read (76-157).
new_mailing(ps, last_mailpiece_id, tie1, tie2) ==
    LET created == create_mailpieces(ps)
        sorted == sort_unstable_by_key(created, zip_keys(created), "String", tie1)
        trays == presort_mailpieces(assign_ids(sorted, last_mailpiece_id), tie2)
        five == sum_len(trays, FiveDigit) % U16
        mixed == sum_len(trays, MixedAadc) % U16
    IN  [trays |-> trays,
         mailpiece_cnt |-> Len(created) % U16,
         tray_1ft_cnt |-> count_size(trays, OneFoot) % U8,
         tray_2ft_cnt |-> count_size(trays, TwoFoot) % U8,
         five_dig_cnt |-> five,
         mixed_aadc_cnt |-> mixed,
         postage_subtotal_five_dig |-> five * PRC_FIVE_DIG,
         postage_subtotal_mixed_aadc |-> mixed * PRC_MIXED_AADC,
         part_a_subtotal |-> five * PRC_FIVE_DIG + mixed * PRC_MIXED_AADC]

-----------------------------------------------------------------------------
(* MailTray::add_barcodes (mailing.rs 326-374).                            *)

\* The indices of the mailpieces without a barcode, in order (332-336).
lacking(tray) ==
    SelectSeq([i \in DOMAIN tray.mailpieces |-> i],
              LAMBDA i : tray.mailpieces[i].barcode = <<>>)

\* The tray after the first n of the indices idxs received their barcode.
with_barcodes(tray, mailer_id, idxs, n) ==
    LET done == {idxs[k] : k \in 1..n}
    IN  [tray EXCEPT !.mailpieces =
            Vec([i \in DOMAIN tray.mailpieces |->
                    IF i \in done
                    THEN [tray.mailpieces[i] EXCEPT
                             !.barcode = imb_of(tray, mailer_id, tray.mailpieces[i])]
                    ELSE tray.mailpieces[i]])]

ids_of(tray, idxs, n) == {tray.mailpieces[idxs[k]].id : k \in 1..n}

-----------------------------------------------------------------------------
(* The arguments of Mailing::load.                                         *)

\* Number of blocks of persons the argument list is made of.
MaxPersRuns == 2
\* Number of times load is called.
MaxLoads == 2
\* An encoder failure strikes among the first MaxEncOk + 1 requests of a tray.
MaxEncOk == 1

Address(address1, zip5, zip4, delivery_point) ==
    [address1 |-> address1, zip5 |-> zip5, zip4 |-> zip4,
     delivery_point |-> delivery_point]

\* Vec<Address> of a person: one address, or two.
Adr94110 == <<Address("1 MAIN ST", 94110, 0, None)>>
Adr20515 == <<Address("2 CHOB", 20515, 6501, Some(<<2, 5>>))>>
AdrTwo ==
    <<Address("PO BOX 3", 20515, 12, None),
      Address("4 ELM ST", 501, 1, Some(<<0, 4>>))>>

\* The blocks: n persons that share their addresses (adrs is an Option); 200
\* persons make a FiveDigit group.
PersRunChoices ==
    { [n |-> 1, adrs |-> None],
      [n |-> 1, adrs |-> Some(AdrTwo)],
      [n |-> PRESORT_MIN, adrs |-> Some(Adr20515)],
      [n |-> PRESORT_MIN, adrs |-> Some(Adr94110)] }

PersRunSeqs == UNION {[1..k -> PersRunChoices] : k \in 0..MaxPersRuns}

\* The persons a sequence of blocks stands for; the name is the position.
persons_of(runs) ==
    LET flat == Concat([j \in DOMAIN runs |->
                          [i \in 1..runs[j].n |-> [name |-> 0, adrs |-> runs[j].adrs]]])
    IN  Vec([i \in DOMAIN flat |-> [flat[i] EXCEPT !.name = i]])

\* mailing_cfg.json: mailer_id and last_mailpiece_id (mailing.rs 497-506).
\* After 999998 mailpieces the ids outgrow the six digits of the serial number.
Cfgs ==
    [mailer_id : {<<8, 9, 9, 9, 9, 9, 9, 9, 9>>}, last_mailpiece_id : {0, 999998}]

-----------------------------------------------------------------------------
(* Specification of Mailing::load, called up to MaxLoads times.            *)

PresortIdle == mailpieces = <<>> /\ ret = <<>> /\ called = "none"

Init ==
    /\ PresortIdle /\ ExtIdle
    /\ cfg \in Cfgs
    /\ \E runs \in PersRunSeqs : pers = persons_of(runs)
    /\ file = None /\ mailing = NoMailing /\ pc = "idle"
    /\ tray_idx = 0 /\ may_write = FALSE /\ result = None /\ loads = 0
    /\ assigned = 0 /\ obtained = {} /\ rerequested = {}

Err(msg, who) == [err |-> msg, who |-> who]
IsErr(r) == "err" \in DOMAIN r

\* A load that builds the mailing anew although the file exists.
LoadRead_regenerate ==
    /\ pc = "idle" /\ loads < MaxLoads
    /\ file # None
    /\ \E tie1 \in TiePolicies, tie2 \in TiePolicies :
          mailing' = new_mailing(pers, cfg.last_mailpiece_id, tie1, tie2)
    /\ file' = Some(mailing')
    /\ assigned' = assigned + 1
    /\ pc' = "dir"
    /\ loads' = loads + 1
    /\ UNCHANGED <<cfg, pers, tray_idx, may_write, result, obtained, rerequested>>
    /\ UNCHANGED <<presortVars, extVars>>

\* load, 73-74: the file is read and parsed; the mailing on disk is taken.
LoadRead ==
    /\ pc = "idle" /\ loads < MaxLoads
    /\ file # None
    /\ mailing' = Unwrap(file)
    /\ pc' = "dir"
    /\ loads' = loads + 1
    /\ UNCHANGED <<cfg, pers, file, tray_idx, may_write, result, assigned,
                   obtained, rerequested>>
    /\ UNCHANGED <<presortVars, extVars>>

\* load, 75-102: no file, and a person without addresses.
LoadMissingAddress ==
    /\ pc = "idle" /\ loads < MaxLoads
    /\ file = None
    /\ missing_address(pers) # 0
    /\ result' = Some(Err("missing address", pers[missing_address(pers)].name))
    /\ loads' = loads + 1
    /\ UNCHANGED <<cfg, pers, file, mailing, pc, tray_idx, may_write,
                   assigned, obtained, rerequested>>
    /\ UNCHANGED <<presortVars, extVars>>

\* load, 75-158: no file; the mailing is built and written to disk.
LoadCreate ==
    /\ pc = "idle" /\ loads < MaxLoads
    /\ file = None
    /\ missing_address(pers) = 0
    /\ \E tie1 \in TiePolicies, tie2 \in TiePolicies :
          mailing' = new_mailing(pers, cfg.last_mailpiece_id, tie1, tie2)
    /\ file' = Some(mailing')
    /\ assigned' = assigned + 1
    /\ pc' = "dir"
    /\ loads' = loads + 1
    /\ UNCHANGED <<cfg, pers, tray_idx, may_write, result, obtained, rerequested>>
    /\ UNCHANGED <<presortVars, extVars>>

\* load, 160-167: the directory of the mailing is made anew; may_write = false.
MakeDirOk ==
    /\ pc = "dir"
    /\ pc' = "barcodes" /\ tray_idx' = 1 /\ may_write' = FALSE
    /\ UNCHANGED <<cfg, pers, file, mailing, result, loads, assigned, obtained,
                   rerequested>>
    /\ UNCHANGED <<presortVars, extVars>>

\* load, 165-167: remove_dir_all or create_dir_all fails; load returns the error.
MakeDirErr ==
    /\ pc = "dir"
    /\ result' = Some(Err("mailings dir", 0))
    /\ mailing' = NoMailing
    /\ pc' = "idle"
    /\ UNCHANGED <<cfg, pers, file, tray_idx, may_write, loads, assigned,
                   obtained, rerequested>>
    /\ UNCHANGED <<presortVars, extVars>>

\* The position in idxs of the first mailpiece whose fields encode_barcode
\* rejects, or 0.
first_invalid(tray, mailer_id, idxs) ==
    LET bad(k) == ~barcode_input_valid(tray, mailer_id, tray.mailpieces[idxs[k]])
    IN  IF \E k \in DOMAIN idxs : bad(k)
        THEN CHOOSE k \in DOMAIN idxs : bad(k) /\ \A q \in 1..(k - 1) : ~bad(q)
        ELSE 0

\* load, 188-193: add_barcodes of the next tray returns Ok.
AddBarcodesOk ==
    /\ pc = "barcodes" /\ tray_idx <= Len(mailing.trays)
    /\ \E tray \in {mailing.trays[tray_idx]} :
       \E idxs \in {lacking(tray)} :
       \E ids \in {ids_of(tray, idxs, Len(idxs))} :
           /\ first_invalid(tray, cfg.mailer_id, idxs) = 0
           /\ mailing' = [mailing EXCEPT !.trays[tray_idx] =
                             with_barcodes(tray, cfg.mailer_id, idxs, Len(idxs))]
           /\ may_write' = (may_write \/ idxs # <<>>)
           /\ obtained' = obtained \cup ids
           /\ rerequested' = rerequested \cup (ids \cap obtained)
    /\ tray_idx' = tray_idx + 1
    /\ UNCHANGED <<cfg, pers, file, pc, result, loads, assigned>>
    /\ UNCHANGED <<presortVars, extVars>>

\* load, 189: add_barcodes returns Err at its j-th request, after j - 1
\* encodings: the fields of the j-th are invalid (the encoder is not
\* contacted), or the encoder fails.  load returns the error.
AddBarcodesErr ==
    /\ pc = "barcodes" /\ tray_idx <= Len(mailing.trays)
    /\ \E tray \in {mailing.trays[tray_idx]} :
       \E idxs \in {lacking(tray)} :
       \E inv \in {first_invalid(tray, cfg.mailer_id, idxs)} :
           \E j \in {k \in DOMAIN idxs : k = inv \/ k <= MaxEncOk + 1} :
              /\ inv = 0 \/ j <= inv
              /\ LET got == ids_of(tray, idxs, j - 1)
                     sent == IF j = inv THEN got ELSE ids_of(tray, idxs, j)
                 IN  /\ obtained' = obtained \cup got
                     /\ rerequested' = rerequested \cup (sent \cap obtained)
              /\ result' = Some(Err(IF j = inv THEN "invalid input" ELSE "encoder", 0))
    /\ mailing' = NoMailing
    /\ pc' = "idle" /\ tray_idx' = 0 /\ may_write' = FALSE
    /\ UNCHANGED <<cfg, pers, file, loads, assigned>>
    /\ UNCHANGED <<presortVars, extVars>>

\* load, 194-198: after the last tray, the mailing is saved if any fetch occurred.
SaveIntermediate ==
    /\ pc = "barcodes" /\ tray_idx > Len(mailing.trays)
    /\ file' = IF may_write THEN Some(mailing) ELSE file
    /\ pc' = "envelopes"
    /\ UNCHANGED <<cfg, pers, mailing, tray_idx, may_write, result, loads,
                   assigned, obtained, rerequested>>
    /\ UNCHANGED <<presortVars, extVars>>

\* load, 200-213: the envelopes and letters are written; load returns Ok(mailing).
CreateEnvelopesOk ==
    /\ pc = "envelopes"
    /\ result' = Some(mailing)
    /\ mailing' = NoMailing
    /\ pc' = "idle" /\ tray_idx' = 0 /\ may_write' = FALSE
    /\ UNCHANGED <<cfg, pers, file, loads, assigned, obtained, rerequested>>
    /\ UNCHANGED <<presortVars, extVars>>

\* load, 203: create_envelopes_letters fails (template or pdf file); load
\* returns the error.
CreateEnvelopesErr ==
    /\ pc = "envelopes"
    /\ result' = Some(Err("envelopes", 0))
    /\ mailing' = NoMailing
    /\ pc' = "idle" /\ tray_idx' = 0 /\ may_write' = FALSE
    /\ UNCHANGED <<cfg, pers, file, loads, assigned, obtained, rerequested>>
    /\ UNCHANGED <<presortVars, extVars>>

Next ==
    \/ LoadRead
    \/ LoadMissingAddress
    \/ LoadCreate
    \/ MakeDirOk
    \/ MakeDirErr
    \/ AddBarcodesOk
    \/ AddBarcodesErr
    \/ SaveIntermediate
    \/ CreateEnvelopesOk
    \/ CreateEnvelopesErr

Spec == Init /\ [][Next]_vars

-----------------------------------------------------------------------------
(* Properties of Mailing::load (under Spec).                               *)

\* The mailing with the barcodes blanked: ids, trays and totals.
Skeleton(m) ==
    [m EXCEPT !.trays =
        [t \in DOMAIN m.trays |->
            [m.trays[t] EXCEPT !.mailpieces =
                [i \in DOMAIN m.trays[t].mailpieces |->
                    [m.trays[t].mailpieces[i] EXCEPT !.barcode = <<>>]]]]]

\* The ids of a list of mailpieces.
id_set(flat) == {flat[i].id : i \in DOMAIN flat}

\* (zip5, zip4) of a before (zip5, zip4) of b.
PairLess(a, b) == a[1] < b[1] \/ (a[1] = b[1] /\ a[2] < b[2])

\* C4 as claimed: in the persisted mailing, tray after tray, the id of every
\* mailpiece is one more than the id of the mailpiece before it.
C4_IdsContiguousInOutput ==
    file # None =>
        \A flat \in {pieces_in(Unwrap(file).trays)} :
            \A i \in 1..(Len(flat) - 1) : flat[i + 1].id = flat[i].id + 1

\* C4 as amended (checked where load has just built or read the mailing, the
\* ids of the file never change afterwards): the ids of the persisted mailing
\* are distinct and contiguous
\* from last_mailpiece_id + 1; tray after tray, among the mailpieces of one
\* rate category the zip5 never decreases, and where it increases the id
\* increases.
C4_IdsContiguousPerCategory ==
    (pc = "dir" /\ file # None) =>
        \A flat \in {pieces_in(Unwrap(file).trays)} :
        \A cat \in {cats_in(Unwrap(file).trays)} :
            /\ Cardinality(id_set(flat)) = Len(flat)
            /\ id_set(flat) =
                   (cfg.last_mailpiece_id + 1)..(cfg.last_mailpiece_id + Len(flat))
            /\ \A i \in 1..(Len(flat) - 1) :
                  cat[i] = cat[i + 1] =>
                      /\ flat[i].zip5 <= flat[i + 1].zip5
                      /\ flat[i].zip5 < flat[i + 1].zip5 =>
                             flat[i].id < flat[i + 1].id

\* A persisted mailing whose FiveDigit trays hold larger ids than the
\* MixedAadc mailpiece that ends the output.
C4_Witness ==
    /\ file # None
    /\ \E flat \in {pieces_in(Unwrap(file).trays)} :
       \E cat \in {cats_in(Unwrap(file).trays)} :
          /\ Len(flat) > PRESORT_MIN
          /\ cat[1] = FiveDigit /\ cat[Len(flat)] = MixedAadc
          /\ flat[1].id > flat[Len(flat)].id

\* C5 (checked where load has just built or read the mailing): the ids of a
\* new mailing of n mailpieces are the n distinct values
\* last_mailpiece_id + 1 .. last_mailpiece_id + n, and a mailpiece with a
\* smaller (zip5, zip4) has a smaller id: the id of a mailpiece lies after
\* the ids of the b mailpieces with a smaller (zip5, zip4) and within the
\* next e ids, e the number of mailpieces with its (zip5, zip4).
C5_IdsAscendingByZip ==
    (pc = "dir" /\ file # None) =>
        \A flat \in {pieces_in(Unwrap(file).trays)} :
        \A last \in {cfg.last_mailpiece_id} :
        \A key \in {[i \in DOMAIN flat |-> <<flat[i].zip5, flat[i].zip4>>]} :
        \A keys \in {Range(key)} :
        \A b \in {[k \in keys |->
                     Cardinality({i \in DOMAIN flat : PairLess(key[i], k)})]} :
        \A e \in {[k \in keys |->
                     Cardinality({i \in DOMAIN flat : key[i] = k})]} :
            /\ Len(flat) = Len(create_mailpieces(pers))
            /\ Cardinality(id_set(flat)) = Len(flat)
            /\ id_set(flat) = (last + 1)..(last + Len(flat))
            /\ \A i \in DOMAIN flat :
                  /\ last + b[key[i]] < flat[i].id
                  /\ flat[i].id <= last + b[key[i]] + e[key[i]]

\* A new mailing with zip 00501 (whose key needs the zero padding) that gets
\* the first id, where the first person's mailpiece does not.
C5_Witness ==
    /\ file # None /\ assigned = 1
    /\ Len(pers) > PRESORT_MIN
    /\ \E flat \in {pieces_in(Unwrap(file).trays)} :
       \E first \in {cfg.last_mailpiece_id + 1} :
          /\ \E i \in DOMAIN flat : flat[i].zip5 = 501 /\ flat[i].id = first
          /\ \E i \in DOMAIN flat : flat[i].name = 1 /\ flat[i].id > first
          /\ \E i \in DOMAIN flat : flat[i].zip5 = 20515 /\ flat[i].zip4 = 6501

\* C6: once the mailing file exists, no step of load assigns ids or changes
\* the ids, the trays or the totals of the file, and every mailing that load
\* returns is the mailing of the file.
C6_NoRegeneration ==
    /\ [][file # None =>
             /\ file' # None
             /\ file' = file \/ Skeleton(Unwrap(file')) = Skeleton(Unwrap(file))
             /\ assigned' = assigned]_vars
    /\ [](\A r \in {result} :
             (r # None /\ ~IsErr(Unwrap(r))) =>
                 file # None /\ Unwrap(r) = Unwrap(file))

\* The second call of load has returned a mailing of several trays that was
\* built once.
C6_Witness ==
    /\ loads = 2 /\ pc = "idle" /\ assigned = 1
    /\ result # None /\ ~IsErr(Unwrap(result))
    /\ Len(Unwrap(result).trays) >= 2
    /\ Len(Unwrap(result).trays[1].mailpieces) >= PRESORT_MIN
    /\ obtained # {}

\* C7 as claimed: no encoding that was obtained is requested again.
C7_NoRerequest == rerequested = {}

-----------------------------------------------------------------------------
(* The building step of Mailing::load (75-158) on lists of every size: the *)
(* counts of the mailing are u16.                                          *)

\* The small blocks of persons have up to MaxBuildLen persons.
MaxBuildLen == 20

\* One block of persons: a small one (Some(<<>>) is Some(vec![]), as
\* House::fetch_adrs can leave it, house.rs 170-183), the largest whose count
\* fits u16, or the smallest whose count does not.
BuildRuns ==
    [n : 0..MaxBuildLen, adrs : {None, Some(<<>>), Some(Adr20515), Some(AdrTwo)}]
        \cup [n : {U16 - 1, U16}, adrs : {Some(Adr20515)}]

InitBuild ==
    /\ PresortIdle /\ ExtIdle
    /\ cfg \in {c \in Cfgs : c.last_mailpiece_id = 0}
    /\ \E r \in BuildRuns : pers = persons_of(<<r>>)
    /\ file = None /\ mailing = NoMailing /\ pc = "idle"
    /\ tray_idx = 0 /\ may_write = FALSE /\ result = None /\ loads = 0
    /\ assigned = 0 /\ obtained = {} /\ rerequested = {}

NextBuild == LoadMissingAddress \/ LoadCreate

SpecBuild == InitBuild /\ [][NextBuild]_vars

\* C11 as claimed: in the mailing that load has built, five_dig_cnt +
\* mixed_aadc_cnt is mailpiece_cnt, and mailpiece_cnt is the number of
\* mailpieces created from the addresses of the persons.
C11_CountsAddUp ==
    (pc = "dir" /\ file # None) =>
        \A m \in {Unwrap(file)} :
            /\ m.five_dig_cnt + m.mixed_aadc_cnt = m.mailpiece_cnt
            /\ m.mailpiece_cnt = Len(create_mailpieces(pers))

\* The number of addresses of a person (Person::adr_len, models.rs 62-67).
adr_len(per) == IF per.adrs = None THEN 0 ELSE Len(Unwrap(per.adrs))

\* The persons without addresses.
no_address(ps) == {p \in DOMAIN ps : adr_len(ps[p]) = 0}

\* C12 as claimed: after a call of load without a mailing file, if a person
\* has no addresses the call has returned an error naming such a person, no id
\* is assigned, presort has not run and no file is written; otherwise the
\* mailing has one mailpiece for each (person, address) pair (pair by pair for
\* the small lists, by number for the large ones).
C12_MissingAddressError ==
    loads = 1 =>
        IF no_address(pers) # {}
        THEN /\ result # None /\ IsErr(Unwrap(result))
             /\ Unwrap(result).err = "missing address"
             /\ \E p \in no_address(pers) : Unwrap(result).who = pers[p].name
             /\ assigned = 0 /\ file = None /\ mailing = NoMailing
        ELSE /\ file # None
             /\ \A flat \in {pieces_in(Unwrap(file).trays)} :
                   /\ Len(flat) = Len(create_mailpieces(pers))
                   /\ Len(pers) <= MaxBuildLen =>
                         \A p \in DOMAIN pers :
                         \A a \in DOMAIN Unwrap(pers[p].adrs) :
                             Cardinality({i \in DOMAIN flat :
                                 /\ flat[i].name = pers[p].name
                                 /\ flat[i].address1 = Unwrap(pers[p].adrs)[a].address1
                                 /\ flat[i].zip5 = Unwrap(pers[p].adrs)[a].zip5
                                 /\ flat[i].zip4 = Unwrap(pers[p].adrs)[a].zip4}) = 1

\* C13 as claimed: the mailer_id of the configuration is the one that was
\* loaded, and once load has returned a mailing, last_mailpiece_id has been
\* moved past the ids of that mailing.
C13_LastIdAdvanced ==
    /\ cfg.mailer_id \in {c.mailer_id : c \in Cfgs}
    /\ \A r \in {result} :
          (r # None /\ ~IsErr(Unwrap(r))) =>
              \A id \in id_set(pieces_in(Unwrap(r).trays)) :
                  id <= cfg.last_mailpiece_id

-----------------------------------------------------------------------------
(* encode_barcode (usps.rs 183-236), called with given arguments as in its *)
(* tests, and MailTray::add_barcodes (mailing.rs 325-374) on a given tray. *)

\* What the encoder service does with a request: it answers code "00" and
\* the encoding, it answers another code, or the transport fails.
ApiAnswers == {"00", "01", "net"}

\* encode_barcode(a[1], .., a[5]): the queries the service receives and the
\* value returned.
encode_barcode(a, api) ==
    IF ~encode_input_valid(a[1], a[2], a[3], a[4], a[5])
    THEN [sent |-> <<>>, ret |-> Err("Invalid input", 0)]
    ELSE LET qry == encode_query(a[1], a[2], a[3], a[4], a[5])
         IN  [sent |-> <<qry>>,
              ret |-> IF api = "00" THEN [imb |-> <<70>> \o qry]
                      ELSE IF api = "net" THEN Err("transport", 0)
                      ELSE Err("Error from API", 0)]

RECURSIVE add_barcodes_from(_, _, _, _, _, _)
\* The iterations k.. of the loop of add_barcodes over the mailpieces idxs of
\* self_clone that lack a barcode; st is self, the calls made, the queries
\* received.  An Err of encode_barcode is returned at once (`?`).
add_barcodes_from(st, self_clone, mailer_id, idxs, k, apis) ==
    IF k > Len(idxs)
    THEN [self |-> st.self, calls |-> st.calls, sent |-> st.sent,
          ret |-> [did_fetch |-> idxs # <<>>]]
    ELSE LET a == barcode_args(self_clone, mailer_id, self_clone.mailpieces[idxs[k]])
             r == encode_barcode(a, apis[k])
         IN  IF IsErr(r.ret)
             THEN [self |-> st.self, calls |-> Append(st.calls, a),
                   sent |-> st.sent \o r.sent, ret |-> r.ret]
             ELSE add_barcodes_from(
                      [self |-> [st.self EXCEPT
                                    !.mailpieces[idxs[k]].barcode = r.ret.imb],
                       calls |-> Append(st.calls, a),
                       sent |-> st.sent \o r.sent],
                      self_clone, mailer_id, idxs, k + 1, apis)

add_barcodes(tray, mailer_id, apis) ==
    add_barcodes_from([self |-> tray, calls |-> <<>>, sent |-> <<>>],
                      tray, mailer_id, lacking(tray), 1, apis)

\* The arguments of the direct calls: the accepted example of the tests and
\* values that break one width or one character set.
EncBarcodeIds == {<<5, 0>>, <<5, 10>>, <<2>>, <<2, 5>>}
EncServiceIds == {<<3, 0, 1>>, <<3, 0>>, <<3, 0, 10>>}
EncMailerIds == {<<8, 9, 9, 9, 9, 9, 9, 9, 9>>, <<8, 9, 9, 9, 9, 9, 9, 9>>,
                 <<8, 9, 9, 9, 9, 9, 9, 9, 10>>}
EncSerialIds == {<<9, 8, 1, 0, 0, 0>>, <<9, 8, 1, 0, 0>>, <<9, 8, 1, 0, 0, 10>>}
EncRoutingCodes ==
    {<<>>, <<1, 2, 3, 4, 5>>, <<1, 2, 3, 4>>, <<1, 2, 3, 4, 10>>,
     <<1, 2, 3, 4, 5, 6, 7, 8, 9>>, <<1, 2, 3, 4, 5, 6, 7, 8, 9, 0, 1>>}

\* The trays add_barcodes is called on: one or two mailpieces, with or
\* without ZIP+4 and delivery point, some already barcoded.
EncLens == {1, 2}
EncPieces ==
    {[Mailpiece("n", "a", z5, z4, dp) EXCEPT !.id = id, !.barcode = bc] :
        z5 \in {501, 20515}, z4 \in {0, 1234}, dp \in {None, Some(<<0, 1>>)},
        id \in {7, 1000000}, bc \in {<<>>, <<65>>}}
EncTrays ==
    {MailTray("", OneFoot, b, mps) :
        b \in {FiveDigit, MixedAadc},
        mps \in UNION {[1..n -> EncPieces] : n \in EncLens}}
EncCfgs ==
    [mailer_id : {<<8, 9, 9, 9, 9, 9, 9, 9, 9>>, <<8, 9, 9, 9, 9, 9, 9, 9>>},
     last_mailpiece_id : {0}]

InitEncode ==
    /\ PresortIdle
    /\ cfg \in EncCfgs
    /\ pers = <<>> /\ file = None /\ mailing = NoMailing /\ pc = "idle"
    /\ tray_idx = 0 /\ may_write = FALSE /\ result = None /\ loads = 0
    /\ assigned = 0 /\ obtained = {} /\ rerequested = {}
    /\ enc_tray \in {None} \cup {Some(t) : t \in EncTrays}
    /\ enc_calls = <<>> /\ enc_sent = <<>> /\ enc_ret = None /\ enc_self = None
    /\ StdIdle /\ RosIdle /\ RstIdle /\ ChIdle /\ PrsIdle

\* encode_barcode called with five given strings (usps.rs tests, 259-317).
EncodeBarcode ==
    /\ enc_tray = None /\ enc_ret = None
    /\ \E b \in EncBarcodeIds, s \in EncServiceIds, m \in EncMailerIds,
          n \in EncSerialIds, c \in EncRoutingCodes, api \in ApiAnswers :
          \E r \in {encode_barcode(<<b, s, m, n, c>>, api)} :
              /\ enc_calls' = <<(<<b, s, m, n, c>>)>>
              /\ enc_sent' = r.sent
              /\ enc_ret' = Some(r.ret)
    /\ UNCHANGED <<enc_tray, enc_self>>
    /\ UNCHANGED encOther

\* tray.add_barcodes(..) with the configured mailer_id.
AddBarcodes ==
    /\ enc_tray # None /\ enc_ret = None
    /\ \E tray \in {Unwrap(enc_tray)} :
       \E apis \in [1..Len(lacking(tray)) -> ApiAnswers] :
       \E r \in {add_barcodes(tray, cfg.mailer_id, apis)} :
           /\ enc_calls' = r.calls
           /\ enc_sent' = r.sent
           /\ enc_ret' = Some(r.ret)
           /\ enc_self' = Some(r.self)
    /\ UNCHANGED <<enc_tray>>
    /\ UNCHANGED encOther

NextEncode == EncodeBarcode \/ AddBarcodes
SpecEncode == InitEncode /\ [][NextEncode]_vars

\* s is a string of ASCII digits whose length is in lens.
ascii_digits(s, lens) == Len(s) \in lens /\ \A i \in 1..Len(s) : s[i] \in 0..9

widths_ok(a) ==
    /\ ascii_digits(a[1], {2}) /\ ascii_digits(a[2], {3})
    /\ ascii_digits(a[3], {9}) /\ ascii_digits(a[4], {6})
    /\ ascii_digits(a[5], {0, 5, 9, 11})

\* C14: the encoder receives a query only for a call whose barcode_id is 2,
\* service_id 3, mailer_id 9, serial_id 6 and routing_code 0, 5, 9 or 11
\* ASCII digits.  A call with a field of another width or with another
\* character returns an error, sends nothing to the encoder, and leaves the
\* barcode of its mailpiece empty.
C14_ValidatedBeforeEncoder ==
    /\ Len(enc_sent) <= Len(enc_calls)
    /\ \A j \in DOMAIN enc_sent : widths_ok(enc_calls[j])
    /\ \A k \in DOMAIN enc_calls :
          ~widths_ok(enc_calls[k]) =>
              /\ k = Len(enc_calls) /\ Len(enc_sent) = k - 1
              /\ enc_ret # None /\ IsErr(Unwrap(enc_ret))
              /\ enc_self # None =>
                    \A i \in {lacking(Unwrap(enc_tray))[k]} :
                        Unwrap(enc_self).mailpieces[i].barcode = <<>>

\* add_barcodes has barcoded a first mailpiece and was refused at the second,
\* whose serial_id is too wide.
C14_Witness ==
    /\ enc_self # None /\ Len(enc_calls) = 2 /\ Len(enc_sent) = 1
    /\ Len(enc_calls[2][4]) = 7
    /\ widths_ok(enc_calls[1])
    /\ enc_ret # None /\ IsErr(Unwrap(enc_ret))

RECURSIVE digits_value(_)
\* The number a string of digits denotes.
digits_value(s) ==
    IF s = <<>> THEN 0
    ELSE 10 * digits_value(SubSeq(s, 1, Len(s) - 1)) + s[Len(s)]

\* The mailpiece of the k-th encode_barcode call of add_barcodes.
piece_of_call(k) == Unwrap(enc_tray).mailpieces[lacking(Unwrap(enc_tray))[k]]

\* C15 as claimed: the routing code is zip5 as 5 digits, then zip4 as 4
\* digits if zip4 is non-zero, then the delivery point if there is one, and
\* its length is 0, 5, 9 or 11.
C15_DeliveryPointWhenPresent ==
    enc_tray # None =>
        \A k \in DOMAIN enc_calls :
            \A mp \in {piece_of_call(k)} :
            \A code \in {enc_calls[k][5]} :
                /\ Len(code) \in {0, 5, 9, 11}
                /\ Len(code) >= 5 /\ digits_value(SubSeq(code, 1, 5)) = mp.zip5
                /\ \E z4 \in {IF mp.zip4 # 0 THEN 4 ELSE 0} :
                      /\ z4 = 4 => /\ Len(code) >= 9
                                   /\ digits_value(SubSeq(code, 6, 9)) = mp.zip4
                      /\ SubSeq(code, 6 + z4, Len(code)) =
                            (IF mp.delivery_point # None
                             THEN Unwrap(mp.delivery_point) ELSE <<>>)

\* C15, amended: the routing code is zip5 as 5 digits; only when zip4 is
\* non-zero it goes on with zip4 as 4 digits and then the delivery point if
\* there is one.  With a two-digit delivery point its length is 5, 9 or 11.
C15_RoutingCode ==
    enc_tray # None =>
        \A k \in DOMAIN enc_calls :
            \A mp \in {piece_of_call(k)} :
            \A code \in {enc_calls[k][5]} :
                /\ Len(code) \in {5, 9, 11}
                /\ digits_value(SubSeq(code, 1, 5)) = mp.zip5
                /\ IF mp.zip4 = 0 THEN Len(code) = 5
                   ELSE /\ digits_value(SubSeq(code, 6, 9)) = mp.zip4
                        /\ SubSeq(code, 10, Len(code)) =
                              (IF mp.delivery_point # None
                               THEN Unwrap(mp.delivery_point) ELSE <<>>)

\* add_barcodes has built an 11-digit code, and a 5-digit code for a
\* mailpiece that has a delivery point but no zip4.
C15_Witness ==
    /\ enc_tray # None /\ Len(enc_calls) = 2
    /\ Len(enc_calls[1][5]) = 11
    /\ piece_of_call(2).zip4 = 0 /\ piece_of_call(2).delivery_point # None
    /\ Len(enc_calls[2][5]) = 5

\* C16: for every mailpiece add_barcodes calls encode_barcode with
\* barcode_id "20" for a FiveDigit and "50" for a MixedAADC tray, service_id
\* "272", the configured mailer_id and the id zero-padded to 6 digits; what
\* the encoder receives is these four fields and then the routing code.
C16_EncoderArguments ==
    enc_tray # None =>
        /\ \A k \in DOMAIN enc_calls :
              \A a \in {enc_calls[k]} :
                  /\ Unwrap(enc_tray).barcode_id = FiveDigit => a[1] = <<2, 0>>
                  /\ Unwrap(enc_tray).barcode_id = MixedAadc => a[1] = <<5, 0>>
                  /\ a[2] = <<2, 7, 2>>
                  /\ a[3] = cfg.mailer_id
                  /\ digits_value(a[4]) = piece_of_call(k).id
                  /\ Len(a[4]) >= 6 /\ (Len(a[4]) > 6 => a[4][1] # 0)
        /\ \A j \in DOMAIN enc_sent :
              \A a \in {enc_calls[j]} :
                  enc_sent[j] = a[1] \o a[2] \o a[3] \o a[4] \o a[5]

\* add_barcodes has sent the queries of both mailpieces of a MixedAADC tray.
C16_Witness ==
    /\ enc_tray # None /\ Unwrap(enc_tray).barcode_id = MixedAadc
    /\ Len(enc_sent) = 2 /\ Len(enc_sent[1]) = 31
    /\ enc_ret # None /\ ~IsErr(Unwrap(enc_ret))
    /\ \A i \in 1..2 : Unwrap(enc_self).mailpieces[i].barcode # <<>>

-----------------------------------------------------------------------------
(* standardize_addresses and standardize_address (usps.rs 9-178).  The     *)
(* characters of the address strings are codes: the digits are 0..9, the   *)
(* letters their ASCII codes, and the space is -1 (below the digits, as in *)
(* ASCII).                                                                 *)

SPACE == <<-1>>
\* "Range"
RANGE == <<82, 97, 110, 103, 101>>

\* str::contains
contains(s, pat) ==
    \E i \in 1..(Len(s) - Len(pat) + 1) : SubSeq(s, i, i + Len(pat) - 1) = pat

\* str::parse::<u32>() of a non-empty string of digits
parse(s) == digits_value(s)

AsIs == "AsIs"
CombineAdr1Adr2 == "CombineAdr1Adr2"
SwapAdr1Adr2 == "SwapAdr1Adr2"

FullAddress(address1, address2, city, state, zip5, zip4, delivery_point) ==
    [address1 |-> address1, address2 |-> address2, city |-> city, state |-> state,
     zip5 |-> zip5, zip4 |-> zip4, delivery_point |-> delivery_point]

USPSAddress(address_line1, address_line2, city, state, zip5, zip4, delivery_point) ==
    [address_line1 |-> address_line1, address_line2 |-> address_line2,
     city |-> city, state |-> state, zip5 |-> zip5, zip4 |-> zip4,
     delivery_point |-> delivery_point]

\* The form parameters of the request (usps.rs 65-100); SwapAdr1Adr2 of an
\* address without address2 makes no request.
std_prms(adr, approach, drop_zip) ==
    (IF approach = AsIs
     THEN (IF adr.address1 # <<>> THEN << <<"address1", adr.address1>> >> ELSE <<>>)
          \o (IF adr.address2 # None
              THEN << <<"address2", Unwrap(adr.address2)>> >> ELSE <<>>)
     ELSE IF approach = CombineAdr1Adr2
     THEN << <<"address1",
               IF adr.address2 # None
               THEN adr.address1 \o SPACE \o Unwrap(adr.address2)
               ELSE adr.address1>> >>
     ELSE << <<"address1", Unwrap(adr.address2)>> >>)
    \o (IF adr.city # <<>> THEN << <<"city", adr.city>> >> ELSE <<>>)
    \o (IF adr.state # <<>> THEN << <<"state", adr.state>> >> ELSE <<>>)
    \o (IF ~drop_zip /\ adr.zip5 # 0
        THEN << <<"zip", fmt_pad(adr.zip5, 5)>> >> ELSE <<>>)

\* from (usps.rs 166-178)
from(adr, usps) ==
    [adr EXCEPT !.address1 = usps.address_line1,
                !.address2 = usps.address_line2,
                !.city = usps.city,
                !.state = usps.state,
                !.zip5 = parse(usps.zip5),
                !.zip4 = IF usps.zip4 = <<>> THEN adr.zip4 ELSE parse(usps.zip4),
                !.delivery_point = usps.delivery_point]

\* A choice that takes the first candidate, whatever its line1 and line2.
select_candidate_first(address_list) ==
    IF address_list = <<>> THEN None ELSE Some(address_list[1])

\* The candidate standardize_address takes from a non-empty address_list
\* (usps.rs 115-136), or None.
select_candidate(address_list) ==
    LET usps_adrs == SelectSeq(address_list,
                               LAMBDA v : ~contains(v.address_line1, RANGE))
    IN  IF Len(usps_adrs) = 1 THEN Some(usps_adrs[1])
        ELSE IF Len(usps_adrs) > 1
        THEN IF \E i \in DOMAIN usps_adrs : usps_adrs[i].address_line2 = None
             THEN Some(usps_adrs[CHOOSE i \in DOMAIN usps_adrs :
                          /\ usps_adrs[i].address_line2 = None
                          /\ \A j \in 1..(i - 1) : usps_adrs[j].address_line2 # None])
             ELSE Some(usps_adrs[1])
        ELSE None

\* standardize_address(adr, approach, drop_zip) when the service answers
\* resp: the request made (or None), the address afterwards, the outcome.
standardize_address(adr, approach, drop_zip, resp) ==
    IF approach = SwapAdr1Adr2 /\ adr.address2 = None
    THEN [prms |-> None, adr |-> adr, ok |-> FALSE, err |-> "No address2 to swap"]
    ELSE LET prms == Some(std_prms(adr, approach, drop_zip))
         IN  IF resp.err # ""
             THEN [prms |-> prms, adr |-> adr, ok |-> FALSE, err |-> resp.err]
             ELSE IF resp.result_status # "SUCCESS"
             THEN [prms |-> prms, adr |-> adr, ok |-> FALSE,
                   err |-> "Failed to standardize address."]
             ELSE IF resp.address_list = <<>>
             THEN [prms |-> prms, adr |-> adr, ok |-> FALSE,
                   err |-> "No address found"]
             ELSE LET c == select_candidate(resp.address_list)
                  IN  IF c = None
                      THEN [prms |-> prms, adr |-> adr, ok |-> FALSE,
                            err |-> "Over filtered response"]
                      ELSE [prms |-> prms, adr |-> from(adr, Unwrap(c)),
                            ok |-> TRUE, err |-> ""]

\* Option<String> < Option<String>: None is below every Some.
OptLess(a, b) ==
    IF a = None THEN b # None ELSE b # None /\ StrLess(Unwrap(a), Unwrap(b))

\* Address < Address as derived (models.rs 71): field by field, in order.
AddressLess(a, b) ==
    IF a.address1 # b.address1 THEN StrLess(a.address1, b.address1)
    ELSE IF a.address2 # b.address2 THEN OptLess(a.address2, b.address2)
    ELSE IF a.city # b.city THEN StrLess(a.city, b.city)
    ELSE IF a.state # b.state THEN StrLess(a.state, b.state)
    ELSE IF a.zip5 # b.zip5 THEN a.zip5 < b.zip5
    ELSE IF a.zip4 # b.zip4 THEN a.zip4 < b.zip4
    ELSE OptLess(a.delivery_point, b.delivery_point)

RECURSIVE sort_unstable(_)
\* adrs.sort_unstable(): the order is total, so the result is determined.
sort_unstable(adrs) ==
    IF adrs = <<>> THEN <<>>
    ELSE LET m == CHOOSE i \in DOMAIN adrs :
                     \A j \in DOMAIN adrs : ~AddressLess(adrs[j], adrs[i])
         IN  <<adrs[m]>> \o sort_unstable(SubSeq(adrs, 1, m - 1)
                                          \o SubSeq(adrs, m + 1, Len(adrs)))

\* adrs.dedup_by(|a, b| a == b)
dedup_by(adrs) ==
    LET keep == SelectSeq(Vec([i \in DOMAIN adrs |-> i]),
                          LAMBDA i : i = 1 \/ adrs[i] # adrs[i - 1])
    IN  Vec([k \in DOMAIN keep |-> adrs[keep[k]]])

\* The addresses given to standardize_addresses, as extracted from a page.
StdAdrs ==
    {FullAddress(<<1, 77>>, None, <<67>>, <<83>>, 20515, 1234, None),
     FullAddress(<<2, 69>>, Some(<<65>>), <<67>>, <<83>>, 501, 0, None),
     FullAddress(<<>>, Some(<<66>>), <<>>, <<>>, 0, 0, None)}
MaxAdrs == 2

\* The candidates of the service's answers.
K1 == USPSAddress(<<1, 77>>, None, <<67>>, <<83>>, <<2, 0, 5, 1, 5>>,
                  <<6, 5, 0, 1>>, Some(<<2, 5>>))
K2 == USPSAddress(RANGE \o <<1, 77>>, None, <<67>>, <<83>>, <<2, 0, 5, 1, 5>>,
                  <<>>, None)
K3 == USPSAddress(<<2, 69>>, Some(<<65>>), <<68>>, <<84>>, <<0, 0, 5, 0, 1>>,
                  <<>>, None)
K4 == USPSAddress(<<3, 69>>, Some(<<66>>), <<67>>, <<83>>, <<0, 0, 5, 0, 1>>,
                  <<0, 0, 0, 1>>, Some(<<0, 4>>))
K5 == USPSAddress(<<5, 77>>, None, <<67>>, <<83>>, <<9, 4, 1, 1, 0>>,
                  <<0, 0, 1, 2>>, Some(<<9, 9>>))
CandLists ==
    {<<>>, <<K1>>, <<K2>>, <<K3>>, <<K2, K2>>, <<K3, K1>>, <<K3, K4>>,
     <<K1, K5>>, <<K2, K4, K3>>, <<K2, K3, K5, K1>>}

\* What the service does with a request: the transport (or the JSON) fails,
\* or it answers a status and a list of candidates.
StdResponses ==
    {[err |-> "send", result_status |-> "", address_list |-> <<>>],
     [err |-> "", result_status |-> "FAILURE", address_list |-> <<>>]}
    \cup {[err |-> "", result_status |-> "SUCCESS", address_list |-> l] :
             l \in CandLists}

InitStd ==
    /\ PresortIdle /\ LoadIdle /\ EncIdle /\ RosIdle /\ RstIdle /\ ChIdle /\ PrsIdle
    /\ std_adrs \in UNION {[1..n -> StdAdrs] : n \in 1..MaxAdrs}
    /\ std_idx = 1 /\ std_log = <<>> /\ std_last = None /\ std_ret = None

\* Arms that go on after an attempt whatever its outcome.
std_arm_always_next == Len(std_log) + 1

\* The arm of the nested matches of standardize_addresses the loop is in:
\* 1 before the first attempt on the address, up to 4.
std_arm ==
    IF std_log = <<>> \/ std_log[Len(std_log)].ok THEN 1 ELSE Len(std_log) + 1

\* One standardize_address(adr, approach, drop_zip).await of the loop, at
\* arm n, and what follows it up to the next await or the return: on Ok the
\* loop goes to the next address, and after the last one the list is sorted
\* and deduplicated and returned; on Err the next arm is entered, and the
\* Err of the fourth is returned.
Attempt(n, approach, drop_zip) ==
    /\ \E adr \in {IF n = 4 THEN [std_adrs[std_idx] EXCEPT !.zip5 = 0]
                   ELSE std_adrs[std_idx]} :
       \E resp \in StdResponses :
       \E r \in {standardize_address(adr, approach, drop_zip, resp)} :
       \E adrs \in {[std_adrs EXCEPT ![std_idx] = r.adr]} :
           /\ std_last' = Some([idx |-> std_idx, before |-> adr,
                                approach |-> approach, drop_zip |-> drop_zip,
                                resp |-> IF r.prms = None THEN None ELSE Some(resp),
                                after |-> r.adr, ok |-> r.ok])
           /\ std_log' = (IF n = 1 THEN <<>> ELSE std_log)
                            \o <<[approach |-> approach, drop_zip |-> drop_zip,
                                  zip5 |-> adr.zip5, prms |-> r.prms, ok |-> r.ok]>>
           /\ std_adrs' = adrs
           /\ std_idx' = IF r.ok THEN std_idx + 1 ELSE std_idx
           /\ std_ret' = IF r.ok /\ std_idx = Len(std_adrs)
                         THEN Some([ok |-> dedup_by(sort_unstable(adrs))])
                         ELSE IF ~r.ok /\ n = 4 THEN Some(Err(r.err, std_idx))
                         ELSE None
    /\ UNCHANGED stdOther

\* The loop is at an address, in arm n.
at_arm(n) == std_ret = None /\ std_idx <= Len(std_adrs) /\ std_arm = n

\* usps.rs 15
TryAsIs == at_arm(1) /\ Attempt(1, AsIs, FALSE)
\* usps.rs 21
TryCombineAdr1Adr2 == at_arm(2) /\ Attempt(2, CombineAdr1Adr2, FALSE)
\* usps.rs 27
TrySwapAdr1Adr2 == at_arm(3) /\ Attempt(3, SwapAdr1Adr2, FALSE)
\* usps.rs 34-36: adr.zip5 = 0, then AsIs with drop_zip
TryDropZip == at_arm(4) /\ Attempt(4, AsIs, TRUE)

NextStd == TryAsIs \/ TryCombineAdr1Adr2 \/ TrySwapAdr1Adr2 \/ TryDropZip
SpecStd == InitStd /\ [][NextStd]_vars

\* The strategies in the order of the claim.
Cascade ==
    <<[approach |-> AsIs, drop_zip |-> FALSE],
      [approach |-> CombineAdr1Adr2, drop_zip |-> FALSE],
      [approach |-> SwapAdr1Adr2, drop_zip |-> FALSE],
      [approach |-> AsIs, drop_zip |-> TRUE]>>

\* C17: the attempts on an address are AsIs, CombineAdr1Adr2, SwapAdr1Adr2
\* and DropZip (zip5 cleared, AsIs without the zip) in this order; every
\* attempt before the last one made has failed, so none follows a success;
\* and an error is returned only after four failed attempts.
C17_CascadeOrder ==
    /\ Len(std_log) <= 4
    /\ \A k \in DOMAIN std_log :
          /\ std_log[k].approach = Cascade[k].approach
          /\ std_log[k].drop_zip = Cascade[k].drop_zip
          /\ k < Len(std_log) => ~std_log[k].ok
          /\ k = 4 =>
                /\ std_log[k].zip5 = 0
                /\ std_log[k].prms # None
                /\ \A i \in DOMAIN Unwrap(std_log[k].prms) :
                      Unwrap(std_log[k].prms)[i][1] # "zip"
    /\ (std_ret # None /\ IsErr(Unwrap(std_ret))) =>
          /\ Len(std_log) = 4
          /\ \A k \in 1..4 : ~std_log[k].ok
    /\ (std_ret # None /\ ~IsErr(Unwrap(std_ret))) => std_log[Len(std_log)].ok

\* The first address was standardized at the fourth attempt, and the loop
\* has gone on to the second address.
C17_Witness ==
    /\ Len(std_log) = 4 /\ std_log[4].ok /\ std_log[3].prms # None
    /\ std_idx = 2 /\ Len(std_adrs) = 2 /\ std_ret = None

\* The candidates of a list whose line1 does not contain "Range".
remaining(address_list) ==
    SelectSeq(address_list, LAMBDA v : ~contains(v.address_line1, RANGE))

\* The last call received a SUCCESS with a non-empty list of candidates.
got_candidates(c) ==
    /\ c.resp # None /\ Unwrap(c.resp).err = ""
    /\ Unwrap(c.resp).result_status = "SUCCESS"
    /\ Unwrap(c.resp).address_list # <<>>

\* C18: of the candidates of a successful lookup those whose line1 contains
\* "Range" are removed; the first remaining one without a line2 is taken,
\* or the first remaining one if all have a line2; if none remains the
\* attempt fails.
C18_CandidateChoice ==
    std_last # None =>
        \A c \in {Unwrap(std_last)} :
            got_candidates(c) =>
                \A rem \in {remaining(Unwrap(c.resp).address_list)} :
                    IF rem = <<>> THEN ~c.ok /\ c.after = c.before
                    ELSE /\ c.ok
                         /\ \E i \in DOMAIN rem :
                               /\ c.after.address1 = rem[i].address_line1
                               /\ c.after.address2 = rem[i].address_line2
                               /\ IF \E j \in DOMAIN rem : rem[j].address_line2 = None
                                  THEN /\ rem[i].address_line2 = None
                                       /\ \A j \in 1..(i - 1) :
                                             rem[j].address_line2 # None
                                  ELSE i = 1

\* Of four candidates the first is a "Range" hit and the second has a line2:
\* the third was taken.
C18_Witness ==
    /\ std_last # None /\ Unwrap(std_last).ok
    /\ Unwrap(Unwrap(std_last).resp).address_list = <<K2, K3, K5, K1>>
    /\ Unwrap(std_last).after.address1 = K5.address_line1

\* C19 as claimed: after a successful standardize_address each of address1,
\* address2, city, state, zip5, zip4 and delivery_point is that of the chosen
\* candidate (an absent zip4 being 0); after a failed one the address is as
\* it was before the attempt.
C19_AllFieldsOverwritten ==
    std_last # None =>
        \A c \in {Unwrap(std_last)} :
            IF c.ok
            THEN \E i \in DOMAIN Unwrap(c.resp).address_list :
                 \A k \in {Unwrap(c.resp).address_list[i]} :
                    /\ c.after.address1 = k.address_line1
                    /\ c.after.address2 = k.address_line2
                    /\ c.after.city = k.city
                    /\ c.after.state = k.state
                    /\ c.after.zip5 = digits_value(k.zip5)
                    /\ c.after.zip4 = digits_value(k.zip4)
                    /\ c.after.delivery_point = k.delivery_point
            ELSE c.after = c.before

-----------------------------------------------------------------------------
(* fetch_adrs of the rosters (house.rs 152-225, senate.rs 115-170,         *)
(* state.rs 98-160) for one Person whose adrs is None.  A page is what     *)
(* fetching and parsing a url gives: an error (of the transport or of the  *)
(* standardization), no addresses found, or a list of standardized         *)
(* addresses.                                                              *)

MaxPageAdrs == 2
Pages ==
    {[kind |-> "err", adrs |-> <<>>], [kind |-> "miss", adrs |-> <<>>]}
    \cup {[kind |-> "adrs", adrs |-> Vec([i \in 1..n |-> i])] : n \in 0..MaxPageAdrs}

Fitzpatrick == "Brian Fitzpatrick"
Hickenlooper == "John W. Hickenlooper"
Member == "A Member"

\* The url paths tried for a Person, in the order of the code.
url_paths(roster, name) ==
    IF roster = "House"
    THEN IF name = Fitzpatrick THEN <<"washington-d-c-office", "district-office">>
         ELSE <<"contact/offices", "contact/office-locations", "district",
                "contact", "offices", "office-locations", "office-information", "">>
    ELSE IF roster = "Senate"
    THEN <<"contact", "contact/offices", "", "public",
           "public/index.cfm/office-locations", "contact/office-locations">>
    ELSE <<"">>

\* A test that lets every list through.
too_few_never(adrs) == FALSE

\* house.rs 206
too_few(adrs) == Len(adrs) < 2

\* fetch_prs_std_adrs of a roster on a page: Err, or Ok of None or of
\* Some(adrs) (house.rs 230-254, senate.rs 233-257, state.rs 163-186).
fetch_prs_std_adrs(roster, page) ==
    IF page.kind = "err" THEN [err |-> TRUE, val |-> None]
    ELSE IF page.kind = "miss" THEN [err |-> FALSE, val |-> None]
    ELSE IF roster = "Senate"
    THEN [err |-> FALSE,
          val |-> IF Len(page.adrs) < 2 THEN None ELSE Some(page.adrs)]
    ELSE [err |-> FALSE,
          val |-> IF page.adrs = <<>> THEN None ELSE Some(page.adrs)]

\* The end of an iteration of the loop over the persons once the paths of
\* the Person are done with: the error if adrs is still None (House and
\* Senate), else the checkpoint write, and the return.
end_of_person(roster, name, adrs, write_ok) ==
    IF adrs = None /\ roster # "State" THEN Some(Err("no addresses for", name))
    ELSE IF ~write_ok THEN Some(Err("write_to_file", 0))
    ELSE Some([ok |-> TRUE])

\* One iteration of the loop over url_paths (house.rs 197-212, senate.rs
\* 144-156; state.rs 145-150 with its single url), and what follows it when
\* it is the last.
loop_step(roster, name, fetched, page, write_ok) ==
    LET paths == url_paths(roster, name)
        k == Len(fetched) + 1
        r == fetch_prs_std_adrs(roster, page)
        f == Append(fetched, [url_path |-> paths[k], page |-> page])
    IN  IF r.err
        THEN [fetched |-> f, adrs |-> None, ret |-> Some(Err("fetch", 0))]
        ELSE IF r.val # None /\ ~(roster = "House" /\ too_few(Unwrap(r.val)))
        THEN [fetched |-> f, adrs |-> r.val,
              ret |-> end_of_person(roster, name, r.val, write_ok)]
        ELSE IF k < Len(paths)
        THEN [fetched |-> f, adrs |-> None, ret |-> None]
        ELSE [fetched |-> f, adrs |-> None,
              ret |-> end_of_person(roster, name, None, write_ok)]

\* The addresses the pages fetched so far gave to the gathering loop.
gathered(fetched) ==
    Concat([k \in DOMAIN fetched |->
               IF fetch_prs_std_adrs("House", fetched[k].page).val = None THEN <<>>
               ELSE Unwrap(fetch_prs_std_adrs("House", fetched[k].page).val)])

InitFetch ==
    /\ PresortIdle /\ LoadIdle /\ EncIdle /\ StdIdle /\ RstIdle /\ ChIdle /\ PrsIdle
    /\ \E r \in {"House", "Senate", "State"} :
          /\ ros = r
          /\ ros_per \in {Member} \cup (IF r = "House" THEN {Fitzpatrick}
                                       ELSE IF r = "Senate" THEN {Hickenlooper}
                                       ELSE {})
    /\ ros_fetched = <<>> /\ ros_adrs = None /\ ros_ret = None

\* The Person is not resolved and url paths are left.
paths_left ==
    /\ ros_ret = None /\ ros_adrs = None
    /\ Len(ros_fetched) < Len(url_paths(ros, ros_per))

\* The next fetch of the loop over url_paths.
FetchPath ==
    \E page \in Pages, write_ok \in BOOLEAN :
    \E r \in {loop_step(ros, ros_per, ros_fetched, page, write_ok)} :
        /\ ros_fetched' = r.fetched
        /\ ros_adrs' = r.adrs
        /\ ros_ret' = r.ret
        /\ UNCHANGED <<ros, ros_per>>
        /\ UNCHANGED rosOther

\* house.rs 185-213
FetchHousePath == ros = "House" /\ ros_per # Fitzpatrick /\ paths_left /\ FetchPath
\* senate.rs 134-157
FetchSenatePath == ros = "Senate" /\ ros_per # Hickenlooper /\ paths_left /\ FetchPath
\* state.rs 143-150
FetchStateUrl == ros = "State" /\ paths_left /\ FetchPath

\* house.rs 170-183: the next fetch of the loop that gathers the addresses
\* of both pages of this Person; after the second, adrs is set to what was
\* gathered.
FetchGather ==
    /\ ros = "House" /\ ros_per = Fitzpatrick /\ paths_left
    /\ \E paths \in {url_paths(ros, ros_per)} :
       \E k \in {Len(ros_fetched) + 1} :
       \E page \in Pages, write_ok \in BOOLEAN :
       \E fetched \in {Append(ros_fetched, [url_path |-> paths[k], page |-> page])} :
           /\ ros_fetched' = fetched
           /\ IF page.kind = "err"
              THEN ros_adrs' = None /\ ros_ret' = Some(Err("fetch", 0))
              ELSE IF k < Len(paths)
              THEN ros_adrs' = None /\ ros_ret' = None
              ELSE /\ ros_adrs' = Some(gathered(fetched))
                   /\ ros_ret' = end_of_person(ros, ros_per, Some(gathered(fetched)), write_ok)
    /\ UNCHANGED <<ros, ros_per>>
    /\ UNCHANGED rosOther

\* senate.rs 130-133, 172-224: fetch_prs_per takes this Person's addresses
\* from a JSON endpoint; whatever it standardizes is accepted.
FetchPrsPer ==
    /\ ros = "Senate" /\ ros_per = Hickenlooper
    /\ ros_ret = None /\ ros_adrs = None /\ ros_fetched = <<>>
    /\ \E page \in {pg \in Pages : pg.kind # "miss"}, write_ok \in BOOLEAN :
           /\ ros_fetched' = <<[url_path |-> "wp-json/wp/v2/locations", page |-> page]>>
           /\ IF page.kind = "err"
              THEN ros_adrs' = None /\ ros_ret' = Some(Err("fetch", 0))
              ELSE /\ ros_adrs' = Some(page.adrs)
                   /\ ros_ret' = end_of_person(ros, ros_per, Some(page.adrs), write_ok)
    /\ UNCHANGED <<ros, ros_per>>
    /\ UNCHANGED rosOther

NextFetch ==
    FetchHousePath \/ FetchSenatePath \/ FetchStateUrl \/ FetchGather \/ FetchPrsPer
SpecFetch == InitFetch /\ [][NextFetch]_vars

\* The number of addresses a page yields.
page_count(page) == IF page.kind = "adrs" THEN Len(page.adrs) ELSE 0

\* The minimum of the claim.
min_adrs(roster) == IF roster \in {"House", "Senate"} THEN 2 ELSE 1

paths_exhausted ==
    /\ ros_adrs = None
    /\ Len(ros_fetched) = Len(url_paths(ros, ros_per))
    /\ ros_fetched[Len(ros_fetched)].page.kind # "err"

\* C21 as claimed, for House, Senate and Governors: when all url paths of a
\* Person are exhausted without an accepted result, fetch_adrs returns an
\* error that names the Person; it never returns Ok while the Person's
\* addresses are absent.
C21_UnresolvedIsFatal ==
    ros_ret # None =>
        /\ paths_exhausted =>
              /\ IsErr(Unwrap(ros_ret))
              /\ Unwrap(ros_ret).err = "no addresses for"
              /\ Unwrap(ros_ret).who = ros_per
        /\ ~IsErr(Unwrap(ros_ret)) => ros_adrs # None

\* C30 as claimed: when fetch_adrs of the House or of the Senate has
\* returned Ok for a Person, the Person has at least two addresses.
C30_AtLeastTwo ==
    (ros \in {"House", "Senate"} /\ ros_ret # None /\ ~IsErr(Unwrap(ros_ret))) =>
        /\ ros_adrs # None
        /\ Len(Unwrap(ros_adrs)) >= 2

-----------------------------------------------------------------------------
(* House::load and Senate::load over the runs of the program (house.rs     *)
(* 35-226, senate.rs 30-171): the roster file, the loop of fetch_adrs over *)
(* the persons, the checkpoint after each.  What the arms of fetch_adrs do *)
(* for one Person is an outcome: an error, or the addresses stored.        *)

MaxPersons == 3
MaxRosterRuns == 3

RosterPerson(name, adrs) == [name |-> name, adrs |-> adrs]

\* fetch_members: the persons of the index page, without addresses.
fetch_members(n) == Vec([i \in 1..n |-> RosterPerson(i, None)])

\* A loop that visits every Person.
unresolved_all(persons) == Vec([i \in DOMAIN persons |-> i])

\* .enumerate().filter(|(_, per)| per.adrs.is_none())
unresolved(persons) ==
    SelectSeq(Vec([i \in DOMAIN persons |-> i]),
              LAMBDA i : persons[i].adrs = None)

\* What fetch_adrs does for one Person: `?` on an error of a fetch or the
\* "no addresses for" error, or persons[idx].adrs = Some(adrs).
PersonOutcomes ==
    {[kind |-> "err", adrs |-> <<>>]}
    \cup {[kind |-> "adrs", adrs |-> a] : a \in {<<>>, <<1, 2>>}}

\* write_to_file (core.rs 30-36): it succeeds; File::create fails and the
\* file is as it was; or File::create has truncated the file and the
\* serialization fails, leaving a file that read_from_file cannot read.
WriteOutcomes == {"ok", "create", "write"}

write_to_file(old, data, w) ==
    IF w = "ok" THEN Some(data) ELSE IF w = "create" THEN old ELSE None

InitRoster ==
    /\ PresortIdle /\ LoadIdle /\ EncIdle /\ StdIdle /\ RosIdle /\ ChIdle /\ PrsIdle
    /\ rst_file = None /\ rst_mem = <<>> /\ rst_todo = <<>> /\ rst_pc = "idle"
    /\ rst_ret = None /\ rst_runs = 0 /\ rst_start = None /\ rst_log = <<>>
    /\ rst_ckpt = None

\* load, the file is read: fetch_adrs starts on the persons without
\* addresses, and returns at once when there is none.
RosterLoadFromFile ==
    /\ rst_pc = "idle" /\ rst_runs < MaxRosterRuns /\ rst_file # None
    /\ rst_runs' = rst_runs + 1
    /\ rst_start' = rst_file /\ rst_log' = <<>>
    /\ rst_mem' = Unwrap(rst_file)
    /\ \E todo \in {unresolved(Unwrap(rst_file))} :
          /\ rst_todo' = todo
          /\ rst_pc' = IF todo = <<>> THEN "idle" ELSE "adrs"
          /\ rst_ret' = IF todo = <<>> THEN Some([ok |-> TRUE]) ELSE None
    /\ UNCHANGED <<rst_file, rst_ckpt>>
    /\ UNCHANGED rstOther

\* load, the file cannot be read: the members are fetched and the roster is
\* written, then fetch_adrs starts.
RosterLoadMembers ==
    /\ rst_pc = "idle" /\ rst_runs < MaxRosterRuns /\ rst_file = None
    /\ rst_runs' = rst_runs + 1
    /\ rst_start' = rst_file /\ rst_log' = <<>>
    /\ \/ /\ rst_ret' = Some(Err("fetch_members", 0))
          /\ UNCHANGED <<rst_file, rst_mem, rst_todo, rst_pc, rst_ckpt>>
       \/ \E n \in 1..MaxPersons, w \in WriteOutcomes :
          \E persons \in {fetch_members(n)} :
              /\ rst_mem' = persons
              /\ rst_file' = write_to_file(rst_file, persons, w)
              /\ rst_ckpt' = IF w = "ok" THEN Some(persons) ELSE rst_ckpt
              /\ rst_todo' = IF w = "ok" THEN unresolved(persons) ELSE <<>>
              /\ rst_pc' = IF w = "ok" THEN "adrs" ELSE "idle"
              /\ rst_ret' = IF w = "ok" THEN None ELSE Some(Err("write_to_file", 0))
    /\ UNCHANGED rstOther

\* fetch_adrs, one iteration of the loop over the persons: the arms for the
\* Person, the "no addresses" check, the checkpoint write; after the last
\* Person fetch_adrs and load return Ok.
FetchAdrsPerson ==
    /\ rst_pc = "adrs" /\ rst_todo # <<>>
    /\ \E idx \in {Head(rst_todo)} :
       \E o \in PersonOutcomes, w \in WriteOutcomes :
           /\ rst_log' = Append(rst_log, idx)
           /\ IF o.kind = "err"
              THEN /\ rst_ret' = Some(Err("fetch_adrs", rst_mem[idx].name))
                   /\ rst_pc' = "idle" /\ rst_todo' = <<>>
                   /\ UNCHANGED <<rst_file, rst_mem, rst_ckpt>>
              ELSE \E persons \in {[rst_mem EXCEPT ![idx].adrs = Some(o.adrs)]} :
                   /\ rst_mem' = persons
                   /\ rst_file' = write_to_file(rst_file, persons, w)
                   /\ rst_ckpt' = IF w = "ok" THEN Some(persons) ELSE rst_ckpt
                   /\ IF w # "ok"
                      THEN /\ rst_ret' = Some(Err("write_to_file", 0))
                           /\ rst_pc' = "idle" /\ rst_todo' = <<>>
                      ELSE /\ rst_todo' = Tail(rst_todo)
                           /\ rst_pc' = IF Tail(rst_todo) = <<>> THEN "idle" ELSE "adrs"
                           /\ rst_ret' = IF Tail(rst_todo) = <<>>
                                         THEN Some([ok |-> TRUE]) ELSE None
    /\ UNCHANGED <<rst_runs, rst_start>>
    /\ UNCHANGED rstOther

NextRoster == RosterLoadFromFile \/ RosterLoadMembers \/ FetchAdrsPerson
SpecRoster == InitRoster /\ [][NextRoster]_vars

\* C22: while the loop of fetch_adrs is between two persons the roster file
\* holds the roster in memory, so every Person resolved so far has been
\* written; a load that started from a roster file visits only persons whose
\* addresses are absent in that file; and no Person is visited twice in a
\* load.
C22_CheckpointAndResume ==
    /\ rst_pc = "adrs" => rst_file = Some(rst_mem)
    /\ (rst_ret # None /\ ~IsErr(Unwrap(rst_ret))) => rst_file = Some(rst_mem)
    /\ \A k \in DOMAIN rst_log :
          /\ rst_start # None => Unwrap(rst_start)[rst_log[k]].adrs = None
          /\ \A j \in DOMAIN rst_log : j # k => rst_log[j] # rst_log[k]

\* A second load started from a file in which the first Person was resolved
\* and the second was not; it visited the second only and returned Ok.
C22_Witness ==
    /\ rst_runs >= 2 /\ rst_start # None
    /\ Len(Unwrap(rst_start)) = 2
    /\ Unwrap(rst_start)[1].adrs = Some(<<1, 2>>)
    /\ rst_log = <<2>>
    /\ rst_ret # None /\ ~IsErr(Unwrap(rst_ret))

\* C27 as claimed, for the roster file: when a load has returned an error,
\* the file holds what the last successful write_to_file wrote.
C27_CheckpointIntact ==
    (rst_ret # None /\ IsErr(Unwrap(rst_ret))) => rst_file = rst_ckpt

-----------------------------------------------------------------------------
(* presort_mailpieces keeps the mailpieces.                                *)

\* The mailpieces of the trays, tray after tray.
tray_pieces(trays) == Concat([t \in DOMAIN trays |-> trays[t].mailpieces])

\* C29: the mailpieces of the trays that presort_mailpieces returns are the
\* mailpieces of its argument, each once and with every field as it was
\* (the id of a piece of the argument is its position); so the sizes of the
\* trays add up to the length of the argument.
C29_NoLossNoDuplicate ==
    called = "presort" =>
        \A all \in {tray_pieces(ret)} :
            /\ Len(all) = Len(mailpieces)
            /\ {all[j].id : j \in DOMAIN all} = DOMAIN mailpieces
            /\ \A j \in DOMAIN all : all[j] = mailpieces[all[j].id]

\* A five-digit group above CAP_2FOOT was split over two trays and two
\* smaller groups went to a mixed tray.
C29_Witness ==
    /\ called = "presort"
    /\ Len(mailpieces) > CAP_2FOOT
    /\ Len(ret) >= 3
    /\ ret[Len(ret)].barcode_id = MixedAadc
    /\ Cardinality({ret[Len(ret)].mailpieces[j].zip5 :
                      j \in DOMAIN ret[Len(ret)].mailpieces}) >= 2

-----------------------------------------------------------------------------
(* fetch_html (core.rs 52-77) and the files of its cache directory.  A url *)
(* is the sequence of its characters; the site answers a GET with a body   *)
(* of its choice or with an error.                                         *)

MaxFetches == 4

https == <<"h", "t", "t", "p", "s", ":", "/", "/">>

is_alphanumeric(c) == c \in {"a", "b", "c", "h", "p", "s", "t", "0", "1"}

\* url_to_filename (core.rs 106-112): url[8..] with every character that is
\* not alphanumeric replaced by '_'.
url_to_filename(url) ==
    Vec([i \in 1..(Len(url) - 8) |->
            IF is_alphanumeric(url[i + 8]) THEN url[i + 8] ELSE "_"])

Urls == {https \o <<"a", "/", "b">>, https \o <<"a", ".", "b">>, https \o <<"c">>}
Bodies == {<<1>>, <<1, 2>>, <<2>>}

\* A fetch_html that never finds the cache file.
pth_exists_never(cache, name) == FALSE

\* pth.exists() for the file of that name in the cache directory.
pth_exists(cache, name) == name \in DOMAIN cache

\* The proper prefixes of a body: what a failed write_all leaves in the file
\* that File::create has created or truncated.
partial(bdy) == {SubSeq(bdy, 1, n) : n \in 0..(Len(bdy) - 1)}

Ok(x) == [ok |-> x]

fetch_call(url, r, requested) ==
    Some([url |-> url,
          before |-> IF url \in DOMAIN ch_first THEN Some(ch_first[url]) ELSE None,
          ret |-> r, requested |-> requested, cache |-> ch_cache])

first_ok(url, r) ==
    IF IsErr(r) \/ url \in DOMAIN ch_first THEN ch_first
    ELSE (url :> r.ok) @@ ch_first

InitCache ==
    /\ PresortIdle /\ LoadIdle /\ EncIdle /\ StdIdle /\ RosIdle /\ RstIdle /\ PrsIdle
    /\ ch_dir = FALSE /\ ch_cache = <<>> /\ ch_net = 0 /\ ch_first = <<>>
    /\ ch_last = None /\ ch_calls = 0

\* core.rs 56-58: the cache directory does not exist and create_dir_all
\* fails.
FetchHtmlNoDir ==
    /\ ch_calls < MaxFetches /\ ~ch_dir
    /\ \E url \in Urls :
          /\ ch_last' = fetch_call(url, Err("create_dir_all", 0), 0)
          /\ ch_calls' = ch_calls + 1
          /\ UNCHANGED <<ch_dir, ch_cache, ch_net, ch_first>>
    /\ UNCHANGED chOther

\* core.rs 61-66: the cache file exists and is read.
FetchHtmlCached ==
    /\ ch_calls < MaxFetches
    /\ \E url \in Urls :
       \E name \in {url_to_filename(url)} :
          /\ pth_exists(ch_cache, name)
          /\ \E r \in {Ok(ch_cache[name])} :
                /\ ch_last' = fetch_call(url, r, 0)
                /\ ch_first' = first_ok(url, r)
          /\ ch_calls' = ch_calls + 1
          /\ UNCHANGED <<ch_dir, ch_cache, ch_net>>
    /\ UNCHANGED chOther

\* core.rs 68-76: there is no cache file; the url is requested, and the body
\* is written to the cache file and returned.
FetchHtmlGet ==
    /\ ch_calls < MaxFetches
    /\ \E url \in Urls :
       \E name \in {url_to_filename(url)} :
          /\ ~pth_exists(ch_cache, name)
          /\ ch_dir' = TRUE
          /\ ch_net' = ch_net + 1
          /\ ch_calls' = ch_calls + 1
          /\ \/ /\ ch_last' = fetch_call(url, Err("send", 0), 1)
                /\ UNCHANGED <<ch_cache, ch_first>>
             \/ \E bdy \in Bodies :
                \/ /\ ch_last' = fetch_call(url, Err("File::create", 0), 1)
                   /\ UNCHANGED <<ch_cache, ch_first>>
                \/ \E part \in partial(bdy) :
                   /\ ch_cache' = (name :> part) @@ ch_cache
                   /\ ch_last' = fetch_call(url, Err("write_all", 0), 1)
                   /\ UNCHANGED ch_first
                \/ /\ ch_cache' = (name :> bdy) @@ ch_cache
                   /\ ch_last' = fetch_call(url, Ok(bdy), 1)
                   /\ ch_first' = first_ok(url, Ok(bdy))
    /\ UNCHANGED chOther

NextCache == FetchHtmlNoDir \/ FetchHtmlCached \/ FetchHtmlGet
SpecCache == InitCache /\ [][NextCache]_vars

\* C24: a call of fetch_html for a url for which an earlier call returned Ok
\* returns Ok with the body of that earlier call, sends no request and
\* leaves every cache file as it was.
C24_CachedForever ==
    \A c \in {ch_last[k] : k \in DOMAIN ch_last} :
        c.before # None =>
            /\ c.ret = Ok(Unwrap(c.before))
            /\ c.requested = 0
            /\ ch_cache = c.cache

\* The url was fetched with body <<1, 2>>; a later call for it, after the
\* other urls were requested too, returned that body.
C24_Witness ==
    /\ ch_last # None
    /\ Unwrap(ch_last).url = https \o <<"c">>
    /\ Unwrap(ch_last).before = Some(<<1, 2>>)
    /\ Unwrap(ch_last).ret = Ok(<<1, 2>>)
    /\ ch_net >= 2

-----------------------------------------------------------------------------
(* The functions of prsr.rs.  A line (String) is the sequence of the codes *)
(* of its characters.                                                      *)

\* The printable characters, from the space (32) to the tilde (126); the
\* quotation mark, the backslash and the grave accent are spelled out.
chars ==
    <<
      " ", "!", "quote", "#", "$", "%", "&", "'", "(", ")", "*", "+",
      ",", "-", ".", "/", "0", "1", "2", "3", "4", "5", "6", "7",
      "8", "9", ":", ";", "<", "=", ">", "?", "@", "A", "B", "C",
      "D", "E", "F", "G", "H", "I", "J", "K", "L", "M", "N", "O",
      "P", "Q", "R", "S", "T", "U", "V", "W", "X", "Y", "Z", "[",
      "backslash", "]", "^", "_", "grave", "a", "b", "c", "d", "e", "f", "g",
      "h", "i", "j", "k", "l", "m", "n", "o", "p", "q", "r", "s",
      "t", "u", "v", "w", "x", "y", "z", "{", "|", "}", "~"
    >>

\* The code of a character.
ascii(c) == 31 + (CHOOSE i \in DOMAIN chars : chars[i] = c)

\* The String of a tuple of characters.
str(t) == Vec([i \in DOMAIN t |-> ascii(t[i])])

is_ascii_digit(c) == c \in 48..57
is_whitespace(c) == c \in {9, 10, 11, 12, 13, 32}
is_ascii_letter(c) == c \in (65..90) \cup (97..122)
to_ascii_uppercase(c) == IF c \in 97..122 THEN c - 32 ELSE c


-----------------------------------------------------------------------------
(* contains_time (prsr.rs 773-822).                                        *)

MaxLineLen == 6

RECURSIVE time_scan(_, _, _, _)
\* The loop over the characters from the i-th on, with the values of
\* cnt_dig and saw_fst_chr at that point.
time_scan(lne, i, cnt_dig, saw_fst_chr) ==
    IF i > Len(lne) THEN FALSE
    ELSE LET c == lne[i] IN
         IF cnt_dig > 0
         THEN IF is_whitespace(c) THEN time_scan(lne, i + 1, cnt_dig, saw_fst_chr)
              ELSE IF is_ascii_digit(c) /\ cnt_dig = 2
              THEN time_scan(lne, i + 1, 0, saw_fst_chr)
              ELSE LET cnt == IF is_ascii_digit(c) THEN 2 ELSE cnt_dig IN
                   IF saw_fst_chr
                   THEN IF c = ascii(".") THEN time_scan(lne, i + 1, cnt, saw_fst_chr)
                        ELSE IF c \in {ascii("M"), ascii("m")} THEN TRUE
                        ELSE time_scan(lne, i + 1, 0, saw_fst_chr)
                   ELSE IF c \in {ascii("A"), ascii("a"), ascii("P"), ascii("p")}
                   THEN time_scan(lne, i + 1, cnt, TRUE)
                   ELSE IF ~is_ascii_digit(c)
                   THEN time_scan(lne, i + 1, 0, saw_fst_chr)
                   ELSE time_scan(lne, i + 1, cnt, saw_fst_chr)
         ELSE IF is_ascii_digit(c) THEN time_scan(lne, i + 1, 1, saw_fst_chr)
         ELSE time_scan(lne, i + 1, 0, saw_fst_chr)

contains_time(lne) == time_scan(lne, 1, 0, FALSE)

TimeChars == {ascii("1"), ascii("A"), ascii("M"), ascii("."), ascii(" ")}
TimeLines == UNION {[1..n -> TimeChars] : n \in 0..MaxLineLen}

InitTime ==
    /\ PresortIdle /\ LoadIdle /\ EncIdle /\ StdIdle /\ RosIdle /\ RstIdle /\ ChIdle
    /\ prs_fn = "none" /\ prs_ret = <<>>
    /\ \E lne \in TimeLines : prs_arg = Vec(lne)

ContainsTime ==
    /\ prs_fn = "none"
    /\ prs_fn' = "contains_time"
    /\ prs_ret' = contains_time(prs_arg)
    /\ UNCHANGED prs_arg
    /\ UNCHANGED prsOther

NextTime == ContainsTime
SpecTime == InitTime /\ [][NextTime]_vars

\* The line has, from position i to j, a number of one or two digits,
\* followed by whitespace up to k, then a or p, dots, and m.
time_at(lne, i, j, k) ==
    /\ \A n \in i..j : is_ascii_digit(lne[n])
    /\ i = 1 \/ ~is_ascii_digit(lne[i - 1])
    /\ j - i < 2
    /\ \A n \in (j + 1)..k : is_whitespace(lne[n])
    /\ k + 2 <= Len(lne)
    /\ lne[k + 1] \in {ascii("A"), ascii("a"), ascii("P"), ascii("p")}
    /\ \E m \in (k + 2)..Len(lne) :
          /\ lne[m] \in {ascii("M"), ascii("m")}
          /\ \A n \in (k + 2)..(m - 1) : lne[n] = ascii(".")

time_pattern(lne) ==
    \E i \in DOMAIN lne : \E j \in i..Len(lne) : \E k \in j..Len(lne) :
        time_at(lne, i, j, k)

\* C25 as claimed: contains_time is true exactly for the lines that contain
\* a number of one or two digits, optional whitespace and then am, pm, a.m.
\* or p.m. (the dots being optional, in any case); a run of three or more
\* digits before the marker is not such a number.
C25_ExactlyTimePattern ==
    prs_fn = "contains_time" => prs_ret = time_pattern(prs_arg)

-----------------------------------------------------------------------------
(* The regular expressions of Prsr (prsr.rs 37-131).  An expression is     *)
(* matched from left to right over sets of positions: P is the set of the  *)
(* positions (numbers of characters consumed) at which the part matched so *)
(* far may end.                                                            *)

\* One character of the class.
step(lne, P, cls(_)) ==
    {i + 1 : i \in {p \in P : p < Len(lne) /\ cls(lne[p + 1])}}
\* x?
opt(lne, P, cls(_)) == P \cup step(lne, P, cls)
\* x*
star(lne, P, cls(_)) ==
    {j \in 0..Len(lne) : \E i \in P : i <= j /\ \A k \in (i + 1)..j : cls(lne[k])}
\* x+
plus(lne, P, cls(_)) == star(lne, step(lne, P, cls), cls)
\* A word, case-insensitive (?i); w is in upper case.
lit(lne, P, w) ==
    {p + Len(w) : p \in {q \in P : /\ q >= 0 /\ q + Len(w) <= Len(lne)
                                   /\ \A k \in DOMAIN w :
                                          to_ascii_uppercase(lne[q + k]) = w[k]}}

\* one|two|...|twenty
NumberWords ==
    {str(<<"O", "N", "E">>), str(<<"T", "W", "O">>),
     str(<<"T", "H", "R", "E", "E">>), str(<<"F", "O", "U", "R">>),
     str(<<"F", "I", "V", "E">>), str(<<"S", "I", "X">>),
     str(<<"S", "E", "V", "E", "N">>), str(<<"E", "I", "G", "H", "T">>),
     str(<<"N", "I", "N", "E">>), str(<<"T", "E", "N">>),
     str(<<"E", "L", "E", "V", "E", "N">>), str(<<"T", "W", "E", "L", "V", "E">>),
     str(<<"T", "H", "I", "R", "T", "E", "E", "N">>),
     str(<<"F", "O", "U", "R", "T", "E", "E", "N">>),
     str(<<"F", "I", "F", "T", "E", "E", "N">>),
     str(<<"S", "I", "X", "T", "E", "E", "N">>),
     str(<<"S", "E", "V", "E", "N", "T", "E", "E", "N">>),
     str(<<"E", "I", "G", "H", "T", "E", "E", "N">>),
     str(<<"N", "I", "N", "E", "T", "E", "E", "N">>),
     str(<<"T", "W", "E", "N", "T", "Y">>)}

CENTER == str(<<"C", "E", "N", "T", "E", "R">>)

\* The group of re_address1: digits, a letter, a minus or a space, digits,
\* letters, a slash, digits; or a number word.
address1_group(lne) ==
    LET d1 == plus(lne, {0}, is_ascii_digit)
        l1 == opt(lne, d1, is_ascii_letter)
        sp == opt(lne, l1, LAMBDA c : c = ascii("-") \/ is_whitespace(c))
        d2 == star(lne, sp, is_ascii_digit)
        l2 == star(lne, d2, is_ascii_letter)
        sl == opt(lne, l2, LAMBDA c : c = ascii("/"))
    IN  star(lne, sl, is_ascii_digit)
        \cup UNION {lit(lne, {0}, w) : w \in NumberWords}

\* re_address1.is_match: ^(group)\s+.*[A-Za-z].* or CENTER$
re_address1(lne) ==
    \/ \E q \in plus(lne, address1_group(lne), is_whitespace) :
       \E n \in (q + 1)..Len(lne) :
           /\ is_ascii_letter(lne[n])
           /\ \A k \in (q + 1)..n : lne[k] # 10
    \/ Len(lne) \in lit(lne, {Len(lne) - Len(CENTER)}, CENTER)

\* re_po_box.is_match: ^P\s*\.?\s*O\s*\.?\s*BOX\s*\d+$
re_po_box(lne) ==
    LET dot(c) == c = ascii(".")
        p1 == lit(lne, {0}, str(<<"P">>))
        p2 == star(lne, opt(lne, star(lne, p1, is_whitespace), dot), is_whitespace)
        p3 == lit(lne, p2, str(<<"O">>))
        p4 == star(lne, opt(lne, star(lne, p3, is_whitespace), dot), is_whitespace)
        p5 == star(lne, lit(lne, p4, str(<<"B", "O", "X">>)), is_whitespace)
    IN  Len(lne) \in plus(lne, p5, is_ascii_digit)

-----------------------------------------------------------------------------
(* Zip codes (prsr.rs 650-708).                                            *)

LEN_ZIP5 == 5
LEN_ZIP10 == 10

InvalidZips ==
    {str(<<"8", "9", "8", "0", "1">>), str(<<"4", "9", "8", "5", "4">>),
     str(<<"7", "8", "7", "0", "2">>), str(<<"2", "9", "1", "4", "2">>),
     str(<<"8", "5", "1", "3", "9">>), str(<<"7", "8", "0", "7", "1">>),
     str(<<"0", "7", "4", "1", "0">>), str(<<"8", "5", "3", "5", "3">>),
     str(<<"1", "2", "4", "5", "1">>), str(<<"2", "8", "5", "6", "2">>),
     str(<<"0", "0", "8", "0", "2">>), str(<<"9", "6", "9", "5", "2">>)}

is_invalid_zip(zip) == zip \in InvalidZips

is_zip5(lne) == Len(lne) = LEN_ZIP5 /\ \A i \in DOMAIN lne : is_ascii_digit(lne[i])

is_zip10(lne) ==
    /\ Len(lne) = LEN_ZIP10
    /\ \A i \in DOMAIN lne :
          IF i = LEN_ZIP5 + 1 THEN lne[i] = ascii("-") ELSE is_ascii_digit(lne[i])

is_zip(lne) == is_zip5(lne) \/ is_zip10(lne)

RECURSIVE parse_digits(_)
\* str::parse of a string of digits.
parse_digits(lne) ==
    IF lne = <<>> THEN 0
    ELSE 10 * parse_digits(SubSeq(lne, 1, Len(lne) - 1)) + (lne[Len(lne)] - 48)

-----------------------------------------------------------------------------
(* Prsr::prs_adrs (prsr.rs 173-247).                                       *)

MaxLines == 6

\* What a function returns, or what becomes of the call: Option<T> as
\* NoneVal or SomeVal(x), and Panic when the thread panics (an index out of
\* bounds, a subtraction that overflows).
Panic == [kind |-> "panic"]
NoneVal == [kind |-> "none"]
SomeVal(x) == [kind |-> "some", val |-> x]

\* (is_zip5 || is_zip10) && !is_invalid_zip(lne)
is_anchor(lne) == is_zip(lne) /\ ~is_invalid_zip(lne)

is_address1(lne) == re_address1(lne) \/ re_po_box(lne)

RECURSIVE find_adr1(_, _)
\* The while loop at 204-209, from idx_adr1 = a down: the first index whose
\* line matches, or 0 when the index has run below the first line.
find_adr1(lnes, a) ==
    IF a = 0 THEN 0
    ELSE IF is_address1(lnes[a]) THEN a
    ELSE find_adr1(lnes, a - 1)

\* address1 one line back (215-220).
adr1_of(lnes, a) ==
    IF a # 1 /\ ~re_po_box(lnes[a]) /\ re_address1(lnes[a - 1]) THEN a - 1 ELSE a

RECURSIVE join_from(_, _, _, _)
\* The loop at 229-233: the lines from idx_adr2 on are pushed until idx_adr2
\* equals idx_city; it panics at the end of the list when idx_adr2 is
\* already beyond idx_city.
join_from(lnes, address2, idx_adr2, idx_city) ==
    IF idx_adr2 = idx_city THEN SomeVal(address2)
    ELSE IF idx_adr2 > Len(lnes) THEN Panic
    ELSE join_from(lnes, address2 \o <<32>> \o lnes[idx_adr2], idx_adr2 + 1, idx_city)

\* adr.address2 (225-235): NoneVal, SomeVal(address2), or Panic.
address2_of(lnes, a, idx_city) ==
    IF a + 1 = idx_city THEN NoneVal
    ELSE IF a + 1 > Len(lnes) THEN Panic
    ELSE join_from(lnes, lnes[a + 1], a + 2, idx_city)

\* The Address with the zip of the anchor (186-192).
anchor_adr(lne) ==
    IF is_zip5(lne)
    THEN FullAddress(<<>>, None, <<>>, <<>>, parse_digits(lne), 0, None)
    ELSE FullAddress(<<>>, None, <<>>, <<>>, parse_digits(SubSeq(lne, 1, 5)),
                     parse_digits(SubSeq(lne, Len(lne) - 3, Len(lne))), None)

RECURSIVE prs_scan(_, _, _)
\* The loop over the lines in reverse from line i (1-based) with the
\* addresses pushed so far: Panic, NoneVal, or SomeVal(adrs).
prs_scan(lnes, i, adrs) ==
    IF i = 0 THEN SomeVal(dedup_by(sort_unstable(adrs)))
    ELSE IF ~is_anchor(lnes[i]) THEN prs_scan(lnes, i - 1, adrs)
    ELSE IF i < 3 THEN Panic
    ELSE LET found == find_adr1(lnes, IF i > 3 THEN i - 3 ELSE 1) IN
         IF found = 0 THEN NoneVal
         ELSE LET a == adr1_of(lnes, found)
                  address2 == address2_of(lnes, a, i - 2)
              IN  IF address2 = Panic THEN Panic
                  ELSE prs_scan(lnes, i - 1,
                                Append(adrs, [anchor_adr(lnes[i]) EXCEPT
                                                 !.state = lnes[i - 1],
                                                 !.city = lnes[i - 2],
                                                 !.address1 = lnes[a],
                                                 !.address2 =
                                                     IF address2 = NoneVal THEN None
                                                     ELSE Some(address2.val)]))

prs_adrs(lnes) == prs_scan(lnes, Len(lnes), <<>>)

\* The lines of the model: a zip, a zip with four more digits, a state, a
\* city, a street address, a PO box.
AdrLines ==
    {str(<<"2", "0", "5", "1", "5">>),
     str(<<"2", "0", "5", "1", "0", "-", "0", "0", "0", "1">>),
     str(<<"D", "C">>),
     str(<<"C">>),
     str(<<"1", " ", "A">>),
     str(<<"P", "O", " ", "B", "O", "X", " ", "1">>)}

InitPrs ==
    /\ PresortIdle /\ LoadIdle /\ EncIdle /\ StdIdle /\ RosIdle /\ RstIdle /\ ChIdle
    /\ prs_fn = "none" /\ prs_ret = <<>>
    /\ \E n \in 0..MaxLines : \E lnes \in [1..n -> AdrLines] : prs_arg = Vec(lnes)

PrsAdrs ==
    /\ prs_fn = "none"
    /\ prs_fn' = "prs_adrs"
    /\ prs_ret' = prs_adrs(prs_arg)
    /\ UNCHANGED prs_arg
    /\ UNCHANGED prsOther

NextPrs == PrsAdrs
SpecPrs == InitPrs /\ [][NextPrs]_vars

\* The lines have an anchor that no address1 or PO box line precedes by
\* three lines or more.
anchor_without_address1(lnes) ==
    \E i \in DOMAIN lnes :
        /\ is_anchor(lnes[i])
        /\ \A a \in 1..(i - 3) : ~is_address1(lnes[a])

\* C23 as claimed: prs_adrs does not panic; it returns no address when the
\* lines have no anchor, and None when some anchor has no address1 or PO
\* box line at or before the third line above it, which is so for an anchor
\* in the first three lines.
C23_AbsenceNotCrash ==
    prs_fn = "prs_adrs" =>
        /\ prs_ret # Panic
        /\ (\A i \in DOMAIN prs_arg : ~is_anchor(prs_arg[i])) =>
               prs_ret \in {NoneVal, SomeVal(<<>>)}
        /\ anchor_without_address1(prs_arg) => prs_ret = NoneVal

RECURSIVE join_lines(_, _, _)
\* The lines from lo to hi joined by single spaces; lo <= hi.
join_lines(lnes, lo, hi) ==
    IF lo = hi THEN lnes[lo]
    ELSE lnes[lo] \o <<32>> \o join_lines(lnes, lo + 1, hi)

\* The address claimed for the anchor at line i with address1 found at a.
claimed_adr(lnes, i, a) ==
    [anchor_adr(lnes[i]) EXCEPT
        !.state = lnes[i - 1],
        !.city = lnes[i - 2],
        !.address1 = lnes[a],
        !.address2 = IF a + 1 > i - 3 THEN None
                     ELSE Some(join_lines(lnes, a + 1, i - 3))]

RECURSIVE claimed_scan(_, _, _)
\* The scan as claimed, from line i upwards: after an address the scan goes
\* on with the line before its address1.
claimed_scan(lnes, i, adrs) ==
    IF i <= 0 THEN SomeVal(dedup_by(sort_unstable(adrs)))
    ELSE IF ~is_anchor(lnes[i]) THEN claimed_scan(lnes, i - 1, adrs)
    ELSE IF \A a \in 1..(i - 3) : ~is_address1(lnes[a]) THEN NoneVal
    ELSE LET found == CHOOSE a \in 1..(i - 3) :
                          /\ is_address1(lnes[a])
                          /\ \A b \in (a + 1)..(i - 3) : ~is_address1(lnes[b])
             a1 == IF found > 1 /\ ~re_po_box(lnes[found])
                                /\ re_address1(lnes[found - 1])
                   THEN found - 1 ELSE found
         IN  claimed_scan(lnes, a1 - 1, Append(adrs, claimed_adr(lnes, i, a1)))

\* C28 as claimed: the addresses that prs_adrs returns are those of the
\* scan described: state from line i-1, city from i-2, address1 the first
\* matching line from i-3 upwards, moved one line back when it is no PO box
\* and the line before matches address1, address2 the lines between joined
\* by spaces, and the scan continued with the line before address1.
C28_AnchorFields ==
    (prs_fn = "prs_adrs" /\ prs_ret.kind = "some") =>
        prs_ret = claimed_scan(prs_arg, Len(prs_arg), <<>>)

-----------------------------------------------------------------------------
(* Prsr::edit_lnes (prsr.rs 156-171) and the edits it applies.             *)

MaxEditLines == 3

\* The alternatives of re_state (prsr.rs 39-53) in their order; an
\* alternative is the sequence of its words, which \s+ separates.
StateNames ==
    <<
      <<str(<<"A", "L">>)>>,
      <<str(<<"A", "L", "A", "B", "A", "M", "A">>)>>,
      <<str(<<"A", "K">>)>>,
      <<str(<<"A", "L", "A", "S", "K", "A">>)>>,
      <<str(<<"A", "S">>)>>,
      <<str(<<"A", "M", "E", "R", "I", "C", "A", "N">>), str(<<"S", "A", "M", "O", "A">>)>>,
      <<str(<<"A", "Z">>)>>,
      <<str(<<"A", "R", "I", "Z", "O", "N", "A">>)>>,
      <<str(<<"A", "R">>)>>,
      <<str(<<"A", "R", "K", "A", "N", "S", "A", "S">>)>>,
      <<str(<<"C", "A">>)>>,
      <<str(<<"C", "A", "L", "I", "F", "O", "R", "N", "I", "A">>)>>,
      <<str(<<"C", "O">>)>>,
      <<str(<<"C", "O", "L", "O", "R", "A", "D", "O">>)>>,
      <<str(<<"C", "T">>)>>,
      <<str(<<"C", "O", "N", "N", "E", "C", "T", "I", "C", "U", "T">>)>>,
      <<str(<<"D", "E">>)>>,
      <<str(<<"D", "E", "L", "A", "W", "A", "R", "E">>)>>,
      <<str(<<"D", "C">>)>>,
      <<str(<<"D", "I", "S", "T", "R", "I", "C", "T">>), str(<<"O", "F">>), str(<<"C", "O", "L", "U", "M", "B", "I", "A">>)>>,
      <<str(<<"F", "M">>)>>,
      <<str(<<"F", "E", "D", "E", "R", "A", "T", "E", "D">>), str(<<"S", "T", "A", "T", "E", "S">>), str(<<"O", "F">>), str(<<"M", "I", "C", "R", "O", "N", "E", "S", "I", "A">>)>>,
      <<str(<<"F", "L">>)>>,
      <<str(<<"F", "L", "O", "R", "I", "D", "A">>)>>,
      <<str(<<"G", "A">>)>>,
      <<str(<<"G", "E", "O", "R", "G", "I", "A">>)>>,
      <<str(<<"G", "U">>)>>,
      <<str(<<"G", "U", "A", "M">>)>>,
      <<str(<<"H", "I">>)>>,
      <<str(<<"H", "A", "W", "A", "I", "I">>)>>,
      <<str(<<"I", "D">>)>>,
      <<str(<<"I", "D", "A", "H", "O">>)>>,
      <<str(<<"I", "L">>)>>,
      <<str(<<"I", "L", "L", "I", "N", "O", "I", "S">>)>>,
      <<str(<<"I", "N">>)>>,
      <<str(<<"I", "N", "D", "I", "A", "N", "A">>)>>,
      <<str(<<"I", "A">>)>>,
      <<str(<<"I", "O", "W", "A">>)>>,
      <<str(<<"K", "S">>)>>,
      <<str(<<"K", "A", "N", "S", "A", "S">>)>>,
      <<str(<<"K", "Y">>)>>,
      <<str(<<"K", "E", "N", "T", "U", "C", "K", "Y">>)>>,
      <<str(<<"L", "A">>)>>,
      <<str(<<"L", "O", "U", "I", "S", "I", "A", "N", "A">>)>>,
      <<str(<<"M", "E">>)>>,
      <<str(<<"M", "A", "I", "N", "E">>)>>,
      <<str(<<"M", "H">>)>>,
      <<str(<<"M", "A", "R", "S", "H", "A", "L", "L">>), str(<<"I", "S", "L", "A", "N", "D", "S">>)>>,
      <<str(<<"M", "D">>)>>,
      <<str(<<"M", "A", "R", "Y", "L", "A", "N", "D">>)>>,
      <<str(<<"M", "A">>)>>,
      <<str(<<"M", "A", "S", "S", "A", "C", "H", "U", "S", "E", "T", "T", "S">>)>>,
      <<str(<<"M", "I">>)>>,
      <<str(<<"M", "I", "C", "H", "I", "G", "A", "N">>)>>,
      <<str(<<"M", "N">>)>>,
      <<str(<<"M", "I", "N", "N", "E", "S", "O", "T", "A">>)>>,
      <<str(<<"M", "S">>)>>,
      <<str(<<"M", "I", "S", "S", "I", "S", "S", "I", "P", "P", "I">>)>>,
      <<str(<<"M", "O">>)>>,
      <<str(<<"M", "I", "S", "S", "O", "U", "R", "I">>)>>,
      <<str(<<"M", "T">>)>>,
      <<str(<<"M", "O", "N", "T", "A", "N", "A">>)>>,
      <<str(<<"N", "E">>)>>,
      <<str(<<"N", "E", "B", "R", "A", "S", "K", "A">>)>>,
      <<str(<<"N", "V">>)>>,
      <<str(<<"N", "E", "V", "A", "D", "A">>)>>,
      <<str(<<"N", "H">>)>>,
      <<str(<<"N", "E", "W">>), str(<<"H", "A", "M", "P", "S", "H", "I", "R", "E">>)>>,
      <<str(<<"N", "J">>)>>,
      <<str(<<"N", "E", "W">>), str(<<"J", "E", "R", "S", "E", "Y">>)>>,
      <<str(<<"N", "M">>)>>,
      <<str(<<"N", "E", "W">>), str(<<"M", "E", "X", "I", "C", "O">>)>>,
      <<str(<<"N", "Y">>)>>,
      <<str(<<"N", "E", "W">>), str(<<"Y", "O", "R", "K">>)>>,
      <<str(<<"N", "C">>)>>,
      <<str(<<"N", "O", "R", "T", "H">>), str(<<"C", "A", "R", "O", "L", "I", "N", "A">>)>>,
      <<str(<<"N", "D">>)>>,
      <<str(<<"N", "O", "R", "T", "H">>), str(<<"D", "A", "K", "O", "T", "A">>)>>,
      <<str(<<"M", "P">>)>>,
      <<str(<<"N", "O", "R", "T", "H", "E", "R", "N">>), str(<<"M", "A", "R", "I", "A", "N", "A">>), str(<<"I", "S", "L", "A", "N", "D", "S">>)>>,
      <<str(<<"O", "H">>)>>,
      <<str(<<"O", "H", "I", "O">>)>>,
      <<str(<<"O", "K">>)>>,
      <<str(<<"O", "K", "L", "A", "H", "O", "M", "A">>)>>,
      <<str(<<"O", "R">>)>>,
      <<str(<<"O", "R", "E", "G", "O", "N">>)>>,
      <<str(<<"P", "W">>)>>,
      <<str(<<"P", "A", "L", "A", "U">>)>>,
      <<str(<<"P", "A">>)>>,
      <<str(<<"P", "E", "N", "N", "S", "Y", "L", "V", "A", "N", "I", "A">>)>>,
      <<str(<<"P", "R">>)>>,
      <<str(<<"P", "U", "E", "R", "T", "O">>), str(<<"R", "I", "C", "O">>)>>,
      <<str(<<"R", "I">>)>>,
      <<str(<<"R", "H", "O", "D", "E">>), str(<<"I", "S", "L", "A", "N", "D">>)>>,
      <<str(<<"S", "C">>)>>,
      <<str(<<"S", "O", "U", "T", "H">>), str(<<"C", "A", "R", "O", "L", "I", "N", "A">>)>>,
      <<str(<<"S", "D">>)>>,
      <<str(<<"S", "O", "U", "T", "H">>), str(<<"D", "A", "K", "O", "T", "A">>)>>,
      <<str(<<"T", "N">>)>>,
      <<str(<<"T", "E", "N", "N", "E", "S", "S", "E", "E">>)>>,
      <<str(<<"T", "X">>)>>,
      <<str(<<"T", "E", "X", "A", "S">>)>>,
      <<str(<<"U", "T">>)>>,
      <<str(<<"U", "T", "A", "H">>)>>,
      <<str(<<"V", "T">>)>>,
      <<str(<<"V", "E", "R", "M", "O", "N", "T">>)>>,
      <<str(<<"V", "I">>)>>,
      <<str(<<"V", "I", "R", "G", "I", "N">>), str(<<"I", "S", "L", "A", "N", "D", "S">>)>>,
      <<str(<<"V", "A">>)>>,
      <<str(<<"V", "I", "R", "G", "I", "N", "I", "A">>)>>,
      <<str(<<"W", "A">>)>>,
      <<str(<<"W", "A", "S", "H", "I", "N", "G", "T", "O", "N">>)>>,
      <<str(<<"W", "V">>)>>,
      <<str(<<"W", "E", "S", "T">>), str(<<"V", "I", "R", "G", "I", "N", "I", "A">>)>>,
      <<str(<<"W", "I">>)>>,
      <<str(<<"W", "I", "S", "C", "O", "N", "S", "I", "N">>)>>,
      <<str(<<"W", "Y">>)>>,
      <<str(<<"W", "Y", "O", "M", "I", "N", "G">>)>>,
      <<str(<<"A", "A">>)>>,
      <<str(<<"A", "R", "M", "E", "D">>), str(<<"F", "O", "R", "C", "E", "S">>), str(<<"A", "M", "E", "R", "I", "C", "A", "S">>)>>,
      <<str(<<"A", "E">>)>>,
      <<str(<<"A", "R", "M", "E", "D">>), str(<<"F", "O", "R", "C", "E", "S">>), str(<<"E", "U", "R", "O", "P", "E">>)>>,
      <<str(<<"A", "P">>)>>,
      <<str(<<"A", "R", "M", "E", "D">>), str(<<"F", "O", "R", "C", "E", "S">>), str(<<"P", "A", "C", "I", "F", "I", "C">>)>>
    >>

\* \w
is_word_char(c) == is_ascii_letter(c) \/ is_ascii_digit(c) \/ c = ascii("_")

\* \b between the characters p and p + 1.
word_boundary(lne, p) ==
    (p >= 1 /\ is_word_char(lne[p])) # (p < Len(lne) /\ is_word_char(lne[p + 1]))

RECURSIVE alt_ends(_, _, _, _)
\* Where the words of an alternative, from the k-th on, may end.
alt_ends(lne, alt, k, P) ==
    IF k > Len(alt) \/ P = {} THEN P
    ELSE alt_ends(lne, alt, k + 1,
                  lit(lne, IF k = 1 THEN P ELSE plus(lne, P, is_whitespace), alt[k]))

\* The ends of the matches of the k-th alternative that start after p
\* characters.
state_ends(lne, p, k) ==
    IF word_boundary(lne, p)
    THEN {e \in alt_ends(lne, StateNames[k], 1, {p}) : word_boundary(lne, e)}
    ELSE {}

\* The least element of a set of positions.
min_of(S) == CHOOSE q \in S : \A r \in S : q <= r

\* The alternatives that match after p characters.
alts_matching(lne, p) == {k \in DOMAIN StateNames : state_ends(lne, p, k) # {}}

\* The match of the k-th alternative after p characters: <<start, end>>.
state_end_at(lne, p, k) == <<p, CHOOSE e \in state_ends(lne, p, k) : TRUE>>

\* The match at the leftmost of the starts, by the first alternative that
\* matches there, or <<>> when there is no start.
state_find_in(lne, starts) ==
    IF starts = {} THEN <<>>
    ELSE state_end_at(lne, min_of(starts), min_of(alts_matching(lne, min_of(starts))))

\* re_state.find_at: the leftmost match starting after `pos` characters or
\* later, by the first alternative that matches there: <<start, end>>, or
\* <<>> when there is none.
state_find(lne, pos) ==
    state_find_in(lne, {p \in pos..Len(lne) : alts_matching(lne, p) # {}})

\* re_state.is_match
re_state_is_match(lne) == state_find(lne, 0) # <<>>

RECURSIVE state_last(_, _, _)
RECURSIVE state_last_from(_, _, _)
\* re_state.find_iter(lne).last(): the matches do not overlap.
state_last(lne, pos, mat) == state_last_from(lne, mat, state_find(lne, pos))

\* The last match, given the last so far and the next one.
state_last_from(lne, mat, nxt) ==
    IF nxt = <<>> THEN mat ELSE state_last(lne, nxt[2], nxt)

RECURSIVE split(_, _)
\* str::split by a character.
split(lne, sep) ==
    IF \A i \in DOMAIN lne : lne[i] # sep THEN <<lne>>
    ELSE LET i == CHOOSE j \in DOMAIN lne :
                      lne[j] = sep /\ \A k \in 1..(j - 1) : lne[k] # sep
         IN  <<SubSeq(lne, 1, i - 1)>> \o split(SubSeq(lne, i + 1, Len(lne)), sep)

\* str::split_terminator: as split, without a last empty piece.
split_terminator(lne, sep) ==
    LET prts == split(lne, sep)
    IN  IF prts[Len(prts)] = <<>> THEN SubSeq(prts, 1, Len(prts) - 1) ELSE prts

\* str::trim
trim(lne) ==
    LET keep == {i \in DOMAIN lne : ~is_whitespace(lne[i])}
    IN  IF keep = {} THEN <<>>
        ELSE SubSeq(lne, CHOOSE i \in keep : \A j \in keep : i <= j,
                         CHOOSE i \in keep : \A j \in keep : j <= i)

is_ascii_punctuation(c) ==
    c \in (33..47) \cup (58..64) \cup (91..96) \cup (123..126)

\* trim_end_spc_pnc (prsr.rs 825-837)
trim_end_spc_pnc(lne) ==
    LET keep == {i \in DOMAIN lne :
                    ~is_whitespace(lne[i]) /\ ~is_ascii_punctuation(lne[i])}
    IN  IF keep = {} THEN <<>>
        ELSE SubSeq(lne, 1, CHOOSE i \in keep : \A j \in keep : j <= i)

\* lne[lne.len() - n..].starts_with(w)
tail_starts_with(lne, n, w) ==
    Len(lne) >= n /\ SubSeq(lne, Len(lne) - n + 1, Len(lne) - n + Len(w)) = w

\* ends_with_zip5 (prsr.rs 711-745)
ends_with_zip5(lne) ==
    IF Len(lne) > LEN_ZIP5 /\ is_zip5(SubSeq(lne, Len(lne) - 4, Len(lne)))
    THEN IF \/ tail_starts_with(lne, 10, str(<<"R", "O", "O", "M">>))
            \/ tail_starts_with(lne, 11, str(<<"S", "U", "I", "T", "E">>))
            \/ tail_starts_with(lne, 9, str(<<"B", "O", "X">>))
         THEN None
         ELSE IF \A c \in {lne[Len(lne) - 5]} :
                     ~is_ascii_digit(c) /\ c # ascii("-") /\ c # ascii("#")
         THEN Some(SubSeq(lne, Len(lne) - 4, Len(lne)))
         ELSE None
    ELSE None

\* ends_with_zip10 (prsr.rs 750-762)
ends_with_zip10(lne) ==
    IF Len(lne) > LEN_ZIP10 /\ is_zip10(SubSeq(lne, Len(lne) - 9, Len(lne)))
    THEN Some(SubSeq(lne, Len(lne) - 9, Len(lne)))
    ELSE None

\* Option::or_else
or_else(a, b) == IF a # None THEN a ELSE b

\* ends_with_zip (prsr.rs 765-770)
ends_with_zip(lne) == or_else(ends_with_zip5(lne), ends_with_zip10(lne))

\* edit_split_bar (prsr.rs 315-328): a line with a bar is replaced by its
\* pieces that are not empty, trimmed.
edit_split_bar(lnes) ==
    Concat([idx \in DOMAIN lnes |->
        IF \E i \in DOMAIN lnes[idx] : lnes[idx][i] = ascii("|")
        THEN LET prts == SelectSeq(split_terminator(lnes[idx], ascii("|")),
                                   LAMBDA new_lne : new_lne # <<>>)
             IN  Vec([k \in DOMAIN prts |-> trim(prts[k])])
        ELSE <<lnes[idx]>>])

RECURSIVE concat_zip_from(_, _)
\* The loop of edit_concat_zip from line idx down to the second line.
concat_zip_from(lnes, idx) ==
    IF idx < 2 THEN lnes
    ELSE IF is_zip(lnes[idx]) /\ ~re_state_is_match(lnes[idx - 1])
    THEN concat_zip_from(SubSeq(lnes, 1, idx - 2)
                         \o <<lnes[idx - 1] \o <<32>> \o lnes[idx]>>
                         \o SubSeq(lnes, idx + 1, Len(lnes)), idx - 1)
    ELSE concat_zip_from(lnes, idx - 1)

\* edit_concat_zip (prsr.rs 249-262)
edit_concat_zip(lnes) == concat_zip_from(lnes, Len(lnes))

\* edit_zip_disjoint (prsr.rs 565-575): the last line, the first excepted,
\* of fewer than five characters that are all digits is appended to the
\* line before it.
edit_zip_disjoint(lnes) ==
    LET short == {idx \in 2..Len(lnes) :
                     /\ Len(lnes[idx]) < 5
                     /\ \A i \in DOMAIN lnes[idx] : is_ascii_digit(lnes[idx][i])}
    IN  IF short = {} THEN lnes
        ELSE LET idx == CHOOSE i \in short : \A j \in short : j <= i
             IN  SubSeq(lnes, 1, idx - 2) \o <<lnes[idx - 1] \o lnes[idx]>>
                 \o SubSeq(lnes, idx + 1, Len(lnes))

\* The pieces of a sequence of lines, trimmed.
trim_all(prts) == Vec([k \in DOMAIN prts |-> trim(prts[k])])

\* The city part of a line: split at its commas when it has one.
city_parts(city) ==
    IF \E i \in DOMAIN city : city[i] = ascii(",")
    THEN trim_all(split_terminator(city, ascii(",")))
    ELSE <<city>>

\* The parts before the last state `mat` of `rest`, the state, the zip.
city_state_zip(rest, mat, zip) ==
    IF mat = <<>> THEN city_parts(rest) \o <<zip>>
    ELSE city_parts(trim_end_spc_pnc(SubSeq(rest, 1, mat[1])))
         \o <<SubSeq(rest, mat[1] + 1, mat[2])>> \o <<zip>>

\* The same, of the line without its zip.
split_rest(rest, zip) == city_state_zip(rest, state_last(rest, 0, <<>>), zip)

\* What edit_split_city_state_zip puts in the place of one line that ends
\* with a zip: the parts before the state, the state, the zip.
split_city_state_zip(lne, zip) == split_rest(SubSeq(lne, 1, Len(lne) - Len(zip)), zip)

\* One line of edit_split_city_state_zip, given what ends_with_zip found.
split_line(lne, zip) ==
    IF zip # None THEN split_city_state_zip(lne, Unwrap(zip)) ELSE <<lne>>

\* edit_split_city_state_zip (prsr.rs 268-312)
edit_split_city_state_zip(lnes) ==
    Concat([idx \in DOMAIN lnes |-> split_line(lnes[idx], ends_with_zip(lnes[idx]))])

\* edit_drain_after_last_zip (prsr.rs 330-339)
edit_drain_after_last_zip(lnes) ==
    LET zips == {idx \in DOMAIN lnes : is_zip(lnes[idx])}
    IN  IF zips = {} THEN lnes
        ELSE SubSeq(lnes, 1, CHOOSE i \in zips : \A j \in zips : j <= i)

\* edit_single_comma (prsr.rs 528-536)
edit_single_comma(lnes) == SelectSeq(lnes, LAMBDA lne : lne # str(<<",">>))

\* edit_zip_20003 (prsr.rs 538-546)
edit_zip_20003(lnes) ==
    Vec([idx \in DOMAIN lnes |->
            IF lnes[idx] = str(<<"2", "0", "0", "0", "3">>)
            THEN str(<<"2", "0", "5", "1", "5">>) ELSE lnes[idx]])

edit_lnes(lnes) ==
    edit_zip_20003(edit_single_comma(edit_drain_after_last_zip(
        edit_split_city_state_zip(edit_zip_disjoint(edit_concat_zip(
            edit_split_bar(lnes)))))))

\* edit_dot (prsr.rs 517-526)
edit_dot(lnes) ==
    Vec([idx \in DOMAIN lnes |-> SelectSeq(lnes[idx], LAMBDA c : c # ascii("."))])

\* edit_split_comma (prsr.rs 548-561): a line with a comma is replaced by
\* its pieces, trimmed.
edit_split_comma(lnes) ==
    Concat([idx \in DOMAIN lnes |->
        IF \E i \in DOMAIN lnes[idx] : lnes[idx][i] = ascii(",")
        THEN trim_all(split(lnes[idx], ascii(",")))
        ELSE <<lnes[idx]>>])

\* edit_starting_hash (prsr.rs 588-598)
edit_starting_hash(lnes) ==
    Vec([idx \in DOMAIN lnes |->
            IF /\ Len(lnes[idx]) > 1
               /\ lnes[idx][1] = ascii("#")
               /\ ~\A i \in 2..Len(lnes[idx]) : is_ascii_digit(lnes[idx][i])
            THEN Tail(lnes[idx]) ELSE lnes[idx]])

\* edit_empty (prsr.rs 610-616)
edit_empty(lnes) == SelectSeq(lnes, LAMBDA lne : lne # <<>>)

\* The edits of prs_adr_lnes (house.rs 301-312) in their order. The lines
\* of the model are ASCII without a newline and without the words MAILING
\* ADDRESS, INDEPENDENCE AVE, CANNON, LONGWORTH and RAYBURN, and the person
\* is none of those edit_person_house_lnes names, so that edit_nbsp_zwsp,
\* edit_mailing, edit_person_house_lnes, edit_newline, edit_hob and
\* edit_char_half find nothing to edit and are left out.
prs_adr_lnes(lnes) ==
    edit_empty(edit_starting_hash(edit_split_comma(edit_lnes(edit_dot(lnes)))))

\* The lines of the model.
EditLines ==
    {str(<<"A">>), str(<<"1">>), str(<<"2", "0", "0", "0", "3">>),
     str(<<"D", ".", "C", ".">>),
     str(<<"C", ",", " ", "D", "C", " ", "2", "0", "5", "1", "5">>),
     str(<<"A", " ", "|", "B">>), str(<<",">>), str(<<"#", "A">>)}

InitEdit ==
    /\ PresortIdle /\ LoadIdle /\ EncIdle /\ StdIdle /\ RosIdle /\ RstIdle /\ ChIdle
    /\ prs_fn = "none" /\ prs_ret = <<>>
    /\ \E n \in 0..MaxEditLines : \E lnes \in [1..n -> EditLines] : prs_arg = Vec(lnes)

\* The edits applied to the lines.
PrsAdrLnes ==
    /\ prs_fn = "none"
    /\ prs_fn' = "prs_adr_lnes"
    /\ prs_ret' = prs_adr_lnes(prs_arg)
    /\ UNCHANGED prs_arg
    /\ UNCHANGED prsOther

\* The edits applied to the lines they have returned.
PrsAdrLnesAgain ==
    /\ prs_fn = "prs_adr_lnes"
    /\ prs_fn' = "prs_adr_lnes twice"
    /\ prs_arg' = prs_ret
    /\ prs_ret' = prs_adr_lnes(prs_ret)
    /\ UNCHANGED prsOther

NextEdit == PrsAdrLnes \/ PrsAdrLnesAgain
SpecEdit == InitEdit /\ [][NextEdit]_vars

\* C26 as claimed: the line normalizer (edit_lnes and the edits around it)
\* applied to the lines it has returned returns them unchanged.
C26_Idempotent ==
    prs_fn = "prs_adr_lnes twice" => prs_ret = prs_arg

=============================================================================
